---- MODULE Spec2Model ----
(***************************************************************************)
(* A model of velo, a terminal file browser: the undo/redo log of          *)
(* src/undo.rs and the session state machine of src/app.rs, over a small   *)
(* hierarchical filesystem.                                                *)
(*                                                                         *)
(* A name is a sequence of characters, a path a sequence of names (<<>> is *)
(* the filesystem root).  The filesystem is a function from the paths that *)
(* exist to their nodes.                                                   *)
(***************************************************************************)
EXTENDS Naturals, Sequences, FiniteSets, TLC

VARIABLES
    fs,         \* the filesystem: existing path -> [kind, data, mtime]
    undo,       \* UndoStack.undo
    redo,       \* UndoStack.redo
    call,       \* the last UndoStack call: [op, action, ok, msg] and the
                \* stack lengths before it (pre_undo, pre_redo)
    trip,       \* history: push(A); undo(); redo() in progress, and the filesystem at the push
    app,        \* the App of a session (None where no session runs)
    ret,        \* what the last handler returned: "continue" (Ok(false)), "quit" (Ok(true)), "err"
    ops,        \* history: the file operations the last event made, each with its result
    event       \* history: the last event of a watched session and the App and
                \* filesystem it was handled in: [kind, key, app, fs]

uvars == <<undo, redo, call, trip>>
avars == <<app, ret, ops, event>>
vars == <<fs, undo, redo, call, trip, app, ret, ops, event>>

\* no event has been watched
NoEvent == [kind |-> "none"]

----------------------------------------------------------------------------
(* Bounds of the exploration *)

\* SpecUndo: pushes are explored while the undo stack holds fewer actions than this
MaxStack == 2
\* SpecCap: undo() is explored while the redo stack holds fewer actions than this
MaxCapRedo == 2

----------------------------------------------------------------------------
(* Paths and the filesystem *)

Root == <<>>
PA == << <<"a">> >>
PB == << <<"b">> >>
PAx == << <<"a">>, <<"x">> >>

\* a node: its kind, its contents (a file of data d holds d lines and d bytes)
\* and its modification time
FileAt(d, t) == [kind |-> "file", data |-> d, mtime |-> t]
DirAt(t) == [kind |-> "dir", data |-> 0, mtime |-> t]
File(d) == FileAt(d, 1)
Dir == DirAt(1)

IsPrefix(p, q) == Len(p) <= Len(q) /\ SubSeq(q, 1, Len(p)) = p

Parent(p) == SubSeq(p, 1, Len(p) - 1)

\* Path::exists
Exists(f, p) == p \in DOMAIN f

\* Path::is_dir
IsDir(f, p) == p \in DOMAIN f /\ f[p].kind = "dir"

\* the paths strictly below p
Below(f, p) == {q \in DOMAIN f : q # p /\ IsPrefix(p, q)}

Restrict(f, S) == [q \in S |-> f[q]]

\* fs::remove_file: the path must exist and not be a directory
RemoveFile(f, p) ==
    IF Exists(f, p) /\ ~IsDir(f, p)
    THEN [ok |-> TRUE, fs |-> Restrict(f, DOMAIN f \ {p})]
    ELSE [ok |-> FALSE, fs |-> f]

\* fs::remove_dir: the path must be an empty directory (never the root)
RemoveDir(f, p) ==
    IF IsDir(f, p) /\ Below(f, p) = {} /\ p # Root
    THEN [ok |-> TRUE, fs |-> Restrict(f, DOMAIN f \ {p})]
    ELSE [ok |-> FALSE, fs |-> f]

\* fs::remove_dir_all: the path must be a directory; removes it and all below it
RemoveDirAll(f, p) ==
    IF IsDir(f, p) /\ p # Root
    THEN [ok |-> TRUE, fs |-> Restrict(f, DOMAIN f \ ({p} \cup Below(f, p)))]
    ELSE [ok |-> FALSE, fs |-> f]

\* the subtree at from, moved to to
Moved(f, from, to) ==
    LET gone == {from} \cup Below(f, from)
        over == {to} \cup Below(f, to)
        rest == DOMAIN f \ (gone \cup over)
        new  == {to \o SubSeq(q, Len(from) + 1, Len(q)) : q \in gone}
    IN  [q \in rest \cup new |->
            IF q \in new
            THEN f[from \o SubSeq(q, Len(to) + 1, Len(q))]
            ELSE f[q]]

\* fs::rename (rename(2)): from must exist, to's parent must be a directory; a
\* file replaces a file, a directory replaces an empty directory; a directory
\* cannot move below itself; renaming a path to itself does nothing
FsRename(f, from, to) ==
    IF ~Exists(f, from) \/ from = Root \/ to = Root \/ ~IsDir(f, Parent(to))
    THEN [ok |-> FALSE, fs |-> f]
    ELSE IF from = to
    THEN [ok |-> TRUE, fs |-> f]
    ELSE IF IsPrefix(from, to) \/ IsPrefix(to, from)
    THEN [ok |-> FALSE, fs |-> f]
    ELSE IF IsDir(f, from)
    THEN IF Exists(f, to) /\ (~IsDir(f, to) \/ Below(f, to) # {})
         THEN [ok |-> FALSE, fs |-> f]
         ELSE [ok |-> TRUE, fs |-> Moved(f, from, to)]
    ELSE IF IsDir(f, to)
         THEN [ok |-> FALSE, fs |-> f]
         ELSE [ok |-> TRUE, fs |-> Moved(f, from, to)]

----------------------------------------------------------------------------
(* src/undo.rs *)

\* UndoAction and the record_* helpers
record_copy(dest) == [type |-> "Copy", dest |-> dest]
record_move(src, dest) == [type |-> "Move", src |-> src, dest |-> dest]
record_rename(old_path, new_path) ==
    [type |-> "Rename", old_path |-> old_path, new_path |-> new_path]
record_create_file(path) == [type |-> "CreateFile", path |-> path]
record_create_dir(path) == [type |-> "CreateDir", path |-> path]

\* UndoStack::new sets max_size
max_size == 100

Front(s) == SubSeq(s, 1, Len(s) - 1)
Top(s) == s[Len(s)]

\* perform_undo: [ok, fs, reverse, msg]
perform_undo_Copy(action, f) ==
    LET r == IF IsDir(f, action.dest)
             THEN RemoveDirAll(f, action.dest)
             ELSE RemoveFile(f, action.dest)
    IN  [ok |-> r.ok, fs |-> r.fs, msg |-> "Failed to remove",
         reverse |-> record_create_file(action.dest)]

perform_undo_Move(action, f) ==
    LET r == FsRename(f, action.dest, action.src)
    IN  [ok |-> r.ok, fs |-> r.fs, msg |-> "Failed to move back",
         reverse |-> record_move(action.dest, action.src)]

\* a variant of perform_undo_Rename that renames forward again
perform_undo_Rename_forward(action, f) ==
    LET r == FsRename(f, action.old_path, action.new_path)
    IN  [ok |-> r.ok, fs |-> r.fs, msg |-> "Failed to rename back",
         reverse |-> record_rename(action.new_path, action.old_path)]

perform_undo_Rename(action, f) ==
    LET r == FsRename(f, action.new_path, action.old_path)
    IN  [ok |-> r.ok, fs |-> r.fs, msg |-> "Failed to rename back",
         reverse |-> record_rename(action.new_path, action.old_path)]

perform_undo_CreateFile(action, f) ==
    LET r == IF Exists(f, action.path)
             THEN RemoveFile(f, action.path)
             ELSE [ok |-> TRUE, fs |-> f]
    IN  [ok |-> r.ok, fs |-> r.fs, msg |-> "Failed to remove",
         reverse |-> record_create_file(action.path)]

perform_undo_CreateDir(action, f) ==
    LET r == IF Exists(f, action.path)
             THEN RemoveDir(f, action.path)
             ELSE [ok |-> TRUE, fs |-> f]
    IN  [ok |-> r.ok, fs |-> r.fs, msg |-> "Failed to remove dir",
         reverse |-> record_create_dir(action.path)]

perform_undo(action, f) ==
    CASE action.type = "Copy" -> perform_undo_Copy(action, f)
      [] action.type = "Move" -> perform_undo_Move(action, f)
      [] action.type = "Rename" -> perform_undo_Rename(action, f)
      [] action.type = "CreateFile" -> perform_undo_CreateFile(action, f)
      [] action.type = "CreateDir" -> perform_undo_CreateDir(action, f)

\* the forward effect of a recorded action is present on the filesystem
ForwardPresent(action, f) ==
    CASE action.type = "Copy" -> Exists(f, action.dest)
      [] action.type = "Move" -> Exists(f, action.dest) /\ ~Exists(f, action.src)
      [] action.type = "Rename" ->
            Exists(f, action.new_path) /\ ~Exists(f, action.old_path)
      [] action.type = "CreateFile" ->
            Exists(f, action.path) /\ ~IsDir(f, action.path)
      [] action.type = "CreateDir" -> IsDir(f, action.path)

NoAction == [type |-> "None"]
NoTrip == [stage |-> 0, action |-> NoAction, fs |-> <<>>]

\* the value returned by a call, with what it was called on
Returned(op, action, ok, msg) ==
    [op |-> op, action |-> action, ok |-> ok, msg |-> msg,
     pre_undo |-> Len(undo), pre_redo |-> Len(redo)]

\* a variant of PushedStack without the eviction
PushedStack_uncapped(s, action) == Append(s, action)

\* a variant of PushedStack that evicts one action later
PushedStack_late(s, action) ==
    LET t == Append(s, action)
    IN  IF Len(t) > max_size + 1 THEN Tail(t) ELSE t

\* UndoStack::push: the undo stack after the push
PushedStack(s, action) ==
    LET t == Append(s, action)
    IN  IF Len(t) > max_size THEN Tail(t) ELSE t

\* a variant of PushedRedo that keeps the redo stack
PushedRedo_kept(s) == s

\* UndoStack::push: the redo stack after the push
PushedRedo(s) == <<>>

\* UndoStack::push
Push(action) ==
    /\ UNCHANGED avars
    /\ undo' = PushedStack(undo, action)
    /\ redo' = PushedRedo(redo)
    /\ call' = Returned("push", action, TRUE, "")
    /\ trip' = IF ForwardPresent(action, fs)
               THEN [stage |-> 1, action |-> action, fs |-> fs]
               ELSE NoTrip
    /\ UNCHANGED fs

\* a variant of NothingTo with the two messages swapped
NothingTo_swapped(op) == IF op = "undo" THEN "Nothing to redo" ELSE "Nothing to undo"

\* ok_or("Nothing to undo") / ok_or("Nothing to redo"): the error of a pop
\* from an empty stack
NothingTo(op) == IF op = "undo" THEN "Nothing to undo" ELSE "Nothing to redo"

\* self.undo.pop() / self.redo.pop(): the stack an action was popped from
Popped(s) == Front(s)

\* a variant of PushedReverse that pushes before looking at the result
PushedReverse_always(s, r) == Append(s, r.reverse)

\* `let reverse = perform_undo(&action)?; self.redo.push(reverse)`: the other
\* stack after perform_undo returned r
PushedReverse(s, r) == IF r.ok THEN Append(s, r.reverse) ELSE s

\* UndoStack::undo
Undo ==
    /\ UNCHANGED avars
    /\ IF undo = <<>>
       THEN /\ call' = Returned("undo", NoAction, FALSE, NothingTo("undo"))
            /\ trip' = NoTrip
            /\ UNCHANGED <<fs, undo, redo>>
       ELSE LET action == Top(undo)
                r == perform_undo(action, fs)
            IN  /\ undo' = Popped(undo)
                /\ redo' = PushedReverse(redo, r)
                /\ fs' = r.fs
                /\ call' = Returned("undo", action, r.ok, IF r.ok THEN "Undo" ELSE r.msg)
                /\ trip' = IF r.ok /\ trip.stage = 1
                           THEN [trip EXCEPT !.stage = 2]
                           ELSE NoTrip

\* UndoStack::redo
Redo ==
    /\ UNCHANGED avars
    /\ IF redo = <<>>
       THEN /\ call' = Returned("redo", NoAction, FALSE, NothingTo("redo"))
            /\ trip' = NoTrip
            /\ UNCHANGED <<fs, undo, redo>>
       ELSE LET action == Top(redo)
                r == perform_undo(action, fs)
            IN  /\ redo' = Popped(redo)
                /\ undo' = PushedReverse(undo, r)
                /\ fs' = r.fs
                /\ call' = Returned("redo", action, r.ok, IF r.ok THEN "Redo" ELSE r.msg)
                /\ trip' = IF r.ok /\ trip.stage = 2
                           THEN [trip EXCEPT !.stage = 3]
                           ELSE NoTrip

----------------------------------------------------------------------------
(* SpecUndo: an UndoStack created with new(), over every small filesystem  *)

\* the actions a caller records
PushSet ==
    { record_copy(PB), record_move(PA, PB), record_rename(PA, PB),
      record_create_file(PB), record_create_dir(PB), record_create_dir(PA) }

\* the filesystems at the start: a and b each missing, a file or a directory,
\* and a/x a file or missing when a is a directory
InitFs ==
    { f \in UNION {[S -> {File(1), File(2), Dir}] : S \in SUBSET {Root, PA, PB, PAx}} :
        /\ Root \in DOMAIN f /\ f[Root] = Dir
        /\ PA \in DOMAIN f => f[PA] # File(2)
        /\ PB \in DOMAIN f => f[PB] # File(1)
        /\ PAx \in DOMAIN f => (PA \in DOMAIN f /\ f[PA] = Dir /\ f[PAx] = File(2)) }

\* UndoStack::new
NewCall ==
    [op |-> "new", action |-> NoAction, ok |-> TRUE, msg |-> "",
     pre_undo |-> 0, pre_redo |-> 0]

UndoInit ==
    /\ fs \in InitFs
    /\ undo = <<>>
    /\ redo = <<>>
    /\ call = NewCall
    /\ trip = NoTrip
    /\ app = <<>>
    /\ ret = "continue"
    /\ ops = <<>>
    /\ event = NoEvent

UPush == \E action \in PushSet : Len(undo) < MaxStack /\ Push(action)

UndoNext == UPush \/ Undo \/ Redo

SpecUndo == UndoInit /\ [][UndoNext]_vars

----------------------------------------------------------------------------
(* SpecCap: an UndoStack created with new() and filled past max_size.  The *)
(* pushed actions follow a cycle of three, so that the order of the stack  *)
(* shows; they record files that are gone again, so that every undo()      *)
(* succeeds.                                                               *)

CapCycle(action) ==
    CASE action = record_create_file(PA) -> record_create_file(PB)
      [] action = record_create_file(PB) -> record_create_file(PAx)
      [] OTHER -> record_create_file(PA)

CapInit ==
    /\ fs = (Root :> Dir)
    /\ undo = <<>>
    /\ redo = <<>>
    /\ call = NewCall
    /\ trip = NoTrip
    /\ app = <<>>
    /\ ret = "continue"
    /\ ops = <<>>
    /\ event = NoEvent

CapPush == Push(IF undo = <<>> THEN record_create_file(PA) ELSE CapCycle(Top(undo)))

CapUndo == Len(redo) < MaxCapRedo /\ Undo

CapRedo == Redo

CapNext == CapPush \/ CapUndo \/ CapRedo

SpecCap == CapInit /\ [][CapNext]_vars

----------------------------------------------------------------------------
(* src/app.rs: entries, listing, sorting, filtering *)

None == <<>>
Some(x) == <<x>>

Min(a, b) == IF a < b THEN a ELSE b

\* usize::saturating_sub
saturating_sub(a, b) == IF a > b THEN a - b ELSE 0

\* the letters and digits, in the order of their ASCII codes
Upper == <<"A", "B", "C", "D", "E", "F", "G", "H", "I", "J", "K", "L", "M",
           "N", "O", "P", "Q", "R", "S", "T", "U", "V", "W", "X", "Y", "Z">>
Lower == <<"a", "b", "c", "d", "e", "f", "g", "h", "i", "j", "k", "l", "m",
           "n", "o", "p", "q", "r", "s", "t", "u", "v", "w", "x", "y", "z">>
Digits == <<"0", "1", "2", "3", "4", "5", "6", "7", "8", "9">>

InSeq(s, c) == \E i \in 1..Len(s) : s[i] = c
IndexIn(s, c) == CHOOSE i \in 1..Len(s) : s[i] = c

\* the ASCII code of a character
Code(c) ==
    IF InSeq(Lower, c) THEN 96 + IndexIn(Lower, c)
    ELSE IF InSeq(Upper, c) THEN 64 + IndexIn(Upper, c)
    ELSE IF InSeq(Digits, c) THEN 47 + IndexIn(Digits, c)
    ELSE CASE c = " " -> 32
           [] c = "'" -> 39
           [] c = "." -> 46
           [] c = "/" -> 47
           [] c = "_" -> 95

IsUpper(c) == InSeq(Upper, c)

\* char::to_lowercase
LowerChar(c) == IF InSeq(Upper, c) THEN Lower[IndexIn(Upper, c)] ELSE c

\* str::to_lowercase
to_lowercase(name) == [i \in 1..Len(name) |-> LowerChar(name[i])]

\* Ord for str: bytewise lexicographic order
StrLess(s, t) ==
    \E i \in 1..(Len(t)) :
        /\ \A j \in 1..(i - 1) : j <= Len(s) /\ s[j] = t[j]
        /\ (i > Len(s) \/ (i - 1 < Len(s) /\ Code(s[i]) < Code(t[i])))

\* Path::file_name of a path with a last component
FileName(p) == p[Len(p)]

\* Path::extension of a file name: what follows its last '.', unless the name
\* has none or only starts with one
Extension(name) ==
    LET dots == {i \in 1..Len(name) : name[i] = "."}
        last == CHOOSE i \in dots : \A j \in dots : j <= i
    IN  IF dots = {} \/ name = <<".", ".">> THEN <<>>
        ELSE IF last = 1 THEN <<>>
        ELSE SubSeq(name, last + 1, Len(name))

\* FileEntry (no symlinks exist in the modelled filesystems; git_status comes
\* from the external status provider and is left out)
FileEntry(f, q) ==
    [name |-> FileName(q), path |-> q, is_dir |-> f[q].kind = "dir",
     size |-> f[q].data, modified |-> f[q].mtime]

\* the direct children of a directory
ChildPaths(f, dir) == {q \in DOMAIN f : Len(q) = Len(dir) + 1 /\ IsPrefix(dir, q)}

\* read_dir: fails unless the path is a directory; the entries come in no
\* particular order
read_dir(f, path, show_hidden) ==
    [ok |-> IsDir(f, path),
     entries |-> {FileEntry(f, q) : q \in {c \in ChildPaths(f, path) :
                        show_hidden \/ FileName(c)[1] # "."}}]

\* a variant of the comparator of Tab::sort_entries without the comparison of
\* is_dir
SortLess_flat(a, b, sort_by) ==
    CASE sort_by = "Name" -> StrLess(to_lowercase(a.name), to_lowercase(b.name))
      [] sort_by = "Size" -> b.size < a.size
      [] sort_by = "Date" -> b.modified < a.modified
      [] sort_by = "Extension" ->
           LET ext_a == to_lowercase(Extension(a.name))
               ext_b == to_lowercase(Extension(b.name))
           IN  \/ StrLess(ext_a, ext_b)
               \/ /\ ext_a = ext_b
                  /\ StrLess(to_lowercase(a.name), to_lowercase(b.name))

\* the comparator of Tab::sort_entries: a comes before b
SortLess(a, b, sort_by) ==
    IF a.is_dir # b.is_dir THEN a.is_dir
    ELSE CASE sort_by = "Name" -> StrLess(to_lowercase(a.name), to_lowercase(b.name))
           [] sort_by = "Size" -> b.size < a.size
           [] sort_by = "Date" -> b.modified < a.modified
           [] sort_by = "Extension" ->
                LET ext_a == to_lowercase(Extension(a.name))
                    ext_b == to_lowercase(Extension(b.name))
                IN  \/ StrLess(ext_a, ext_b)
                    \/ /\ ext_a = ext_b
                       /\ StrLess(to_lowercase(a.name), to_lowercase(b.name))

\* the comparator of build_tree_recursive (and of the parent listing)
TreeLess(a, b, sort_by) ==
    IF a.is_dir # b.is_dir THEN a.is_dir
    ELSE StrLess(to_lowercase(a.name), to_lowercase(b.name))

\* Vec::sort_by, a stable sort, of a listing that came in any order: every
\* order of the entries in which no entry comes after one it is less than
RECURSIVE Sorted(_, _, _)
Sorted(S, Less(_, _, _), sort_by) ==
    IF S = {} THEN {<<>>}
    ELSE UNION { {<<m>> \o t : t \in Sorted(S \ {m}, Less, sort_by)} :
                 m \in {x \in S : \A y \in S : ~Less(y, x, sort_by)} }

\* Tab::sort_entries applied to what read_dir returned
sort_entries(S, sort_by) == Sorted(S, SortLess, sort_by)

\* one entry put into a sorted list: before the first entry it is less than,
\* so after every entry it compares equal to
vec_sort_insert(sorted, x, sort_by) ==
    LET later == {i \in 1..Len(sorted) : SortLess(x, sorted[i], sort_by)}
        k == IF later = {} THEN Len(sorted) + 1
             ELSE CHOOSE i \in later : \A j \in later : i <= j
    IN  SubSeq(sorted, 1, k - 1) \o <<x>> \o SubSeq(sorted, k, Len(sorted))

\* Vec::sort_by (a stable sort) with the comparator of Tab::sort_entries,
\* applied to the entries in the order they are in
RECURSIVE vec_sort_by(_, _)
vec_sort_by(entries, sort_by) ==
    IF entries = <<>> THEN <<>>
    ELSE vec_sort_insert(vec_sort_by(SubSeq(entries, 1, Len(entries) - 1), sort_by),
                         entries[Len(entries)], sort_by)

\* SkimMatcherV2::default().fuzzy_match(name, query).is_some(): the query is a
\* subsequence of the name; case is ignored unless the query has an upper-case
\* letter (smart case)
RECURSIVE IsSubseq(_, _)
IsSubseq(q, n) ==
    IF q = <<>> THEN TRUE
    ELSE IF n = <<>> THEN FALSE
    ELSE IF Head(q) = Head(n) THEN IsSubseq(Tail(q), Tail(n))
    ELSE IsSubseq(q, Tail(n))

fuzzy_match(name, query) ==
    IF \E i \in 1..Len(query) : IsUpper(query[i])
    THEN IsSubseq(query, name)
    ELSE IsSubseq(query, to_lowercase(name))

\* the indices (from 0) of the elements of a sequence that satisfy Test, in order
RECURSIVE IndicesFrom(_, _, _, _)
IndicesFrom(entries, i, Test(_, _), query) ==
    IF i > Len(entries) THEN <<>>
    ELSE (IF Test(entries[i].name, query) THEN <<i - 1>> ELSE <<>>)
         \o IndicesFrom(entries, i + 1, Test, query)

\* a variant of ClampCursor that leaves the cursor where it is
ClampCursor_kept(cursor, len) == cursor

\* the cursor clamp at the end of Tab::apply_filter
ClampCursor(cursor, len) == IF cursor >= len THEN saturating_sub(len, 1) ELSE cursor

\* the index list Tab::apply_filter computes
FilteredIndices(entries, filter_text) ==
    IF filter_text # <<>>
    THEN IndicesFrom(entries, 1, fuzzy_match, filter_text)
    ELSE [i \in 1..Len(entries) |-> i - 1]

\* a variant of Tab::apply_filter that keeps in the selection only the paths
\* of the entries listed
apply_filter_pruning(tab) ==
    LET fe == FilteredIndices(tab.entries, tab.filter_text)
    IN  [tab EXCEPT !.filtered_entries = fe,
                    !.cursor = ClampCursor(tab.cursor, Len(fe)),
                    !.selected = {p \in tab.selected :
                                    \E i \in 1..Len(fe) : tab.entries[fe[i] + 1].path = p}]

\* Tab::apply_filter
apply_filter(tab) ==
    LET fe == FilteredIndices(tab.entries, tab.filter_text)
    IN  [tab EXCEPT !.filtered_entries = fe,
                    !.cursor = ClampCursor(tab.cursor, Len(fe))]

\* a variant of Tab::refresh that leaves the index list as it is
refresh_unfiltered(tab, f) ==
    LET r == read_dir(f, tab.current_dir, tab.show_hidden)
    IN  IF ~r.ok THEN {[ok |-> FALSE, tab |-> tab]}
        ELSE {[ok |-> TRUE, tab |-> [tab EXCEPT !.entries = es]] :
                es \in sort_entries(r.entries, tab.sort_by)}

\* Tab::refresh: every outcome [ok, tab].  A failed read_dir returns the error
\* before anything is assigned.  (The parent listing, the preview and the git
\* statuses are display data computed from the same inputs and are left out.)
refresh(tab, f) ==
    LET r == read_dir(f, tab.current_dir, tab.show_hidden)
    IN  IF ~r.ok THEN {[ok |-> FALSE, tab |-> tab]}
        ELSE {[ok |-> TRUE, tab |-> apply_filter([tab EXCEPT !.entries = es])] :
                es \in sort_entries(r.entries, tab.sort_by)}

\* Tab::visible_entries
visible_entries(tab) ==
    [i \in 1..Len(tab.filtered_entries) |-> tab.entries[tab.filtered_entries[i] + 1]]

\* Tab::selected_entry: None or Some(entry)
selected_entry(tab) ==
    IF tab.cursor < Len(tab.filtered_entries)
       /\ tab.filtered_entries[tab.cursor + 1] < Len(tab.entries)
    THEN Some(tab.entries[tab.filtered_entries[tab.cursor + 1] + 1])
    ELSE None

\* Tab::new: every outcome [ok, tab]
Tab_new(dir, show_hidden, sort_by, f) ==
    refresh([current_dir |-> dir, entries |-> <<>>, filtered_entries |-> <<>>,
             cursor |-> 0, show_hidden |-> show_hidden, sort_by |-> sort_by,
             selected |-> {}, filter_text |-> <<>>, tree_mode |-> FALSE,
             tree_nodes |-> <<>>, tree_cursor |-> 0, tree_expanded |-> {}], f)

----------------------------------------------------------------------------
(* src/app.rs: the tree view *)

\* fs::read_dir(&path).map(|mut rd| rd.next().is_some()).unwrap_or(false)
has_children(f, path) == IsDir(f, path) /\ ChildPaths(f, path) # {}

\* a variant of Descends without the cap
Descends_uncapped(depth) == TRUE

\* the depth cap of build_tree_recursive: below a node of this depth the
\* function goes on
Descends(depth) == depth < 5

\* Tab::build_tree_recursive: every sequence of nodes it can push for dir
RECURSIVE build_tree_recursive(_, _, _, _), build_tree_entries(_, _, _, _, _)
build_tree_recursive(f, tab, dir, depth) ==
    LET r == read_dir(f, dir, tab.show_hidden)
        S == IF r.ok THEN r.entries ELSE {}
    IN  UNION { build_tree_entries(f, tab, es, 1, depth) : es \in Sorted(S, TreeLess, "Name") }

build_tree_entries(f, tab, es, i, depth) ==
    IF i > Len(es) THEN {<<>>}
    ELSE LET entry == es[i]
             expanded == entry.path \in tab.tree_expanded
             node == [entry |-> entry, depth |-> depth, expanded |-> expanded,
                      has_children |-> entry.is_dir /\ has_children(f, entry.path)]
             below == IF entry.is_dir /\ expanded /\ Descends(depth)
                      THEN build_tree_recursive(f, tab, entry.path, depth + 1)
                      ELSE {<<>>}
         IN  { <<node>> \o sub \o rest :
                 sub \in below, rest \in build_tree_entries(f, tab, es, i + 1, depth) }

\* Tab::rebuild_tree: every tab it can leave
rebuild_tree(tab, f) ==
    { [tab EXCEPT !.tree_nodes = nodes,
                  !.tree_cursor = ClampCursor(tab.tree_cursor, Len(nodes))] :
        nodes \in build_tree_recursive(f, tab, tab.current_dir, 0) }

\* Tab::toggle_tree_mode
toggle_tree_mode(tab, f) ==
    LET t == [tab EXCEPT !.tree_mode = ~tab.tree_mode]
    IN  IF t.tree_mode THEN rebuild_tree(t, f) ELSE {t}

\* Tab::selected_tree_entry: None or Some(entry)
selected_tree_entry(tab) ==
    IF tab.tree_cursor < Len(tab.tree_nodes)
    THEN Some(tab.tree_nodes[tab.tree_cursor + 1].entry)
    ELSE None

\* a variant of tree_toggle_expand that takes the node of a file as well
tree_toggle_expand_any(tab, f) ==
    IF tab.tree_cursor < Len(tab.tree_nodes)
    THEN LET path == tab.tree_nodes[tab.tree_cursor + 1].entry.path
         IN  rebuild_tree([tab EXCEPT !.tree_expanded =
                              IF path \in tab.tree_expanded
                              THEN tab.tree_expanded \ {path}
                              ELSE tab.tree_expanded \cup {path}], f)
    ELSE {tab}

\* a variant of tree_toggle_expand that does not rebuild the tree
tree_toggle_expand_unbuilt(tab, f) ==
    IF tab.tree_cursor < Len(tab.tree_nodes)
       /\ tab.tree_nodes[tab.tree_cursor + 1].entry.is_dir
    THEN LET path == tab.tree_nodes[tab.tree_cursor + 1].entry.path
         IN  {[tab EXCEPT !.tree_expanded =
                              IF path \in tab.tree_expanded
                              THEN tab.tree_expanded \ {path}
                              ELSE tab.tree_expanded \cup {path}]}
    ELSE {tab}

\* Tab::tree_toggle_expand
tree_toggle_expand(tab, f) ==
    IF tab.tree_cursor < Len(tab.tree_nodes)
       /\ tab.tree_nodes[tab.tree_cursor + 1].entry.is_dir
    THEN LET path == tab.tree_nodes[tab.tree_cursor + 1].entry.path
         IN  rebuild_tree([tab EXCEPT !.tree_expanded =
                              IF path \in tab.tree_expanded
                              THEN tab.tree_expanded \ {path}
                              ELSE tab.tree_expanded \cup {path}], f)
    ELSE {tab}

----------------------------------------------------------------------------
(* src/file_ops.rs *)

\* the time a file written now gets
Now == 2
\* the longest path the filesystem accepts, in components (PATH_MAX)
MaxPathLen == 3

\* Path::join of a directory and a typed name: an empty name and "." stay in
\* the directory, ".." is its parent
Join(dir, name) ==
    IF name = <<>> \/ name = <<".">> THEN dir
    ELSE IF name = <<".", ".">> THEN (IF dir = Root THEN Root ELSE Parent(dir))
    ELSE Append(dir, name)

\* the paths strictly above p, the root excluded
Ancestors(p) == {SubSeq(p, 1, n) : n \in 1..(Len(p) - 1)}

\* fs::File::create: creates the file or truncates it
FsCreateFile(f, p) ==
    IF p = Root \/ Len(p) > MaxPathLen \/ ~IsDir(f, Parent(p)) \/ IsDir(f, p)
    THEN [ok |-> FALSE, fs |-> f]
    ELSE [ok |-> TRUE, fs |-> [q \in DOMAIN f \cup {p} |->
                                 IF q = p THEN FileAt(0, Now) ELSE f[q]]]

\* fs::create_dir_all: creates the directory and its missing ancestors; an
\* existing directory is no error
FsCreateDirAll(f, p) ==
    IF IsDir(f, p) THEN [ok |-> TRUE, fs |-> f]
    ELSE IF Len(p) > MaxPathLen
            \/ \E q \in Ancestors(p) \cup {p} : Exists(f, q) /\ ~IsDir(f, q)
    THEN [ok |-> FALSE, fs |-> f]
    ELSE [ok |-> TRUE, fs |-> [q \in DOMAIN f \cup Ancestors(p) \cup {p} |->
                                 IF q \in DOMAIN f THEN f[q] ELSE DirAt(Now)]]

\* fs::copy: copies a file's contents, replacing a file at the destination; a
\* file copied onto itself is truncated
FsCopy(f, from, to) ==
    IF ~Exists(f, from) \/ IsDir(f, from) \/ to = Root \/ Len(to) > MaxPathLen
       \/ ~IsDir(f, Parent(to)) \/ IsDir(f, to)
    THEN [ok |-> FALSE, fs |-> f]
    ELSE [ok |-> TRUE, fs |-> [q \in DOMAIN f \cup {to} |->
                                 IF q = to
                                 THEN FileAt(IF from = to THEN 0 ELSE f[from].data, Now)
                                 ELSE f[q]]]

\* the elements of a set of paths as a sequence, in the order of their last names
RECURSIVE InNameOrder(_)
InNameOrder(S) ==
    IF S = {} THEN <<>>
    ELSE LET m == CHOOSE x \in S : \A y \in S : ~StrLess(FileName(y), FileName(x))
         IN  <<m>> \o InNameOrder(S \ {m})

\* copy_dir_recursive.  (The children are taken in name order; the order
\* read_dir gives them in shows only in what a failed copy leaves behind.)
RECURSIVE copy_dir_recursive(_, _, _), copy_dir_children(_, _, _, _)
copy_dir_recursive(f, src, dest) ==
    LET made == FsCreateDirAll(f, dest)
    IN  IF ~made.ok \/ ~IsDir(made.fs, src) THEN [ok |-> FALSE, fs |-> made.fs]
        ELSE copy_dir_children(made.fs, InNameOrder(ChildPaths(made.fs, src)), 1, dest)

copy_dir_children(f, children, i, dest) ==
    IF i > Len(children) THEN [ok |-> TRUE, fs |-> f]
    ELSE LET child == children[i]
             target == Append(dest, FileName(child))
             r == IF IsDir(f, child)
                  THEN copy_dir_recursive(f, child, target)
                  ELSE FsCopy(f, child, target)
         IN  IF ~r.ok THEN r ELSE copy_dir_children(r.fs, children, i + 1, dest)

\* copy_file: [ok, fs, path]
copy_file(f, src, dest_dir) ==
    IF src = Root THEN [ok |-> FALSE, fs |-> f, path |-> Root]
    ELSE LET dest == Append(dest_dir, FileName(src))
             r == IF IsDir(f, src) THEN copy_dir_recursive(f, src, dest)
                  ELSE FsCopy(f, src, dest)
         IN  [ok |-> r.ok, fs |-> r.fs, path |-> dest]

\* move_file: [ok, fs, path]
move_file(f, src, dest_dir) ==
    IF src = Root THEN [ok |-> FALSE, fs |-> f, path |-> Root]
    ELSE LET dest == Append(dest_dir, FileName(src))
             r == FsRename(f, src, dest)
         IN  [ok |-> r.ok, fs |-> r.fs, path |-> dest]

\* delete_to_trash (trash::delete): the path leaves the filesystem with all
\* below it; fails when the path does not exist
delete_to_trash(f, path) ==
    IF Exists(f, path) /\ path # Root
    THEN [ok |-> TRUE, fs |-> Restrict(f, DOMAIN f \ ({path} \cup Below(f, path)))]
    ELSE [ok |-> FALSE, fs |-> f]

\* rename_file: [ok, fs, path]
rename_file(f, path, new_name) ==
    IF path = Root THEN [ok |-> FALSE, fs |-> f, path |-> Root]
    ELSE LET dest == Join(Parent(path), new_name)
             r == IF Len(dest) > MaxPathLen THEN [ok |-> FALSE, fs |-> f]
                  ELSE FsRename(f, path, dest)
         IN  [ok |-> r.ok, fs |-> r.fs, path |-> dest]

\* create_file: [ok, fs, path]
create_file(f, dir, name) ==
    LET r == FsCreateFile(f, Join(dir, name))
    IN  [ok |-> r.ok, fs |-> r.fs, path |-> Join(dir, name)]

\* create_dir: [ok, fs, path]
create_dir(f, dir, name) ==
    LET r == FsCreateDirAll(f, Join(dir, name))
    IN  [ok |-> r.ok, fs |-> r.fs, path |-> Join(dir, name)]

\* u32::from_str_radix(mode_str, 8).is_ok()
IsOctal(mode_str) ==
    /\ mode_str # <<>>
    /\ \A i \in 1..Len(mode_str) : mode_str[i] \in {"0", "1", "2", "3", "4", "5", "6", "7"}

\* chmod_file: whether it succeeds (permission bits are not part of the
\* modelled filesystem)
chmod_file(f, path, mode_str) == IsOctal(mode_str) /\ Exists(f, path)

\* the lines of a file: a file of data d holds d lines, each "a"
FileLines(node) == [i \in 1..node.data |-> <<"a">>]

\* str::contains
Contains(line, pattern) ==
    \E i \in 0..Len(line) :
        i + Len(pattern) <= Len(line) /\ SubSeq(line, i + 1, i + Len(pattern)) = pattern

\* the matching lines of one file
RECURSIVE search_lines(_, _, _, _)
search_lines(path, lines, i, pattern) ==
    IF i > Len(lines) THEN <<>>
    ELSE (IF Contains(to_lowercase(lines[i]), pattern)
          THEN <<[path |-> path, line_number |-> i, line_text |-> lines[i]]>>
          ELSE <<>>) \o search_lines(path, lines, i + 1, pattern)

\* search_recursive_inner without the result cap.  (Directories are walked in
\* name order.)
RECURSIVE search_all(_, _, _, _)
search_all(f, children, i, pattern) ==
    IF i > Len(children) THEN <<>>
    ELSE LET path == children[i]
             here == IF FileName(path)[1] = "." THEN <<>>
                     ELSE IF IsDir(f, path)
                     THEN search_all(f, InNameOrder(ChildPaths(f, path)), 1, pattern)
                     ELSE IF f[path].data > 1024 * 1024 \/ f[path].data = 0 THEN <<>>
                     ELSE search_lines(path, FileLines(f[path]), 1, pattern)
         IN  here \o search_all(f, children, i + 1, pattern)

\* search_recursive: the scan stops at max_results results
search_recursive(f, dir, pattern, max_results) ==
    LET all == IF IsDir(f, dir)
               THEN search_all(f, InNameOrder(ChildPaths(f, dir)), 1, to_lowercase(pattern))
               ELSE <<>>
    IN  SubSeq(all, 1, Min(Len(all), max_results))

----------------------------------------------------------------------------
(* src/app.rs: the App *)

\* a status message: its fixed text, the number and the typed text put in it
Msg(text, n, s) == Some([text |-> text, n |-> n, s |-> s])

\* KeyEvent: a key code with its modifiers
Ch(c) == [code |-> "Char", ch |-> c, ctrl |-> FALSE, alt |-> FALSE]
Key(code) == [code |-> code, ch |-> "", ctrl |-> FALSE, alt |-> FALSE]
Ctrl(key) == [key EXCEPT !.ctrl = TRUE]
Alt(key) == [key EXCEPT !.alt = TRUE]

\* key.code is KeyCode::Char(c)
IsChar(key, c) == key.code = "Char" /\ key.ch = c
\* key.code is one of the characters or one of the other codes
IsKey(key, chars, codes) == (key.code = "Char" /\ key.ch \in chars) \/ key.code \in codes

\* MouseEvent
Mouse(kind, column, row) == [kind |-> kind, column |-> column, row |-> row]

\* one file operation a handler made and whether it succeeded
OpDone(op, ok, from, to) == [op |-> op, ok |-> ok, from |-> from, to |-> to]

\* what a handler returns, with the state it leaves: Ok(false), Ok(true), Err
Continue(a, f, done) == [app |-> a, fs |-> f, ret |-> "continue", ops |-> done]
Quit(a, f) == [app |-> a, fs |-> f, ret |-> "quit", ops |-> <<>>]
Failed(a, f, done) == [app |-> a, fs |-> f, ret |-> "err", ops |-> done]

\* App::tab
tab(a) == a.tabs[a.active_tab + 1]

\* a variant of App::tab_mut that gives the first tab
tab_mut_first(a, t) == [a EXCEPT !.tabs[1] = t]

\* App::tab_mut, assigned
tab_mut(a, t) == [a EXCEPT !.tabs[a.active_tab + 1] = t]

\* Vec::insert, Vec::remove (indices from 0)
\* a variant of InsertAt that puts the element at the end
InsertAt_end(s, i, x) == Append(s, x)

\* Vec::insert(i, x)
InsertAt(s, i, x) == SubSeq(s, 1, i) \o <<x>> \o SubSeq(s, i + 1, Len(s))
\* a variant of RemoveAt that removes the last element
RemoveAt_last(s, i) == SubSeq(s, 1, Len(s) - 1)

\* Vec::remove(i)
RemoveAt(s, i) == SubSeq(s, 1, i) \o SubSeq(s, i + 2, Len(s))

\* every order in which a HashSet can be iterated
RECURSIVE Orders(_)
Orders(S) ==
    IF S = {} THEN {<<>>}
    ELSE UNION { {<<x>> \o rest : rest \in Orders(S \ {x})} : x \in S }

\* Iterator::position (from 0) of the first element that satisfies Test, or None
Position(s, Test(_)) ==
    IF \E i \in 1..Len(s) : Test(s[i])
    THEN Some((CHOOSE i \in 1..Len(s) : Test(s[i]) /\ \A j \in 1..(i - 1) : ~Test(s[j])) - 1)
    ELSE None

\* MouseAreas::default
MouseAreasDefault == [tab_bar |-> None, tab_positions |-> <<>>, current_pane |-> None]

\* App::with_dir: every outcome [ok, app]
with_dir(config, current_dir, f) ==
    { [ok |-> r.ok,
       app |-> [tabs |-> <<r.tab>>, active_tab |-> 0, pending_op |-> None,
                input_mode |-> "Normal", input_buffer |-> <<>>,
                status_message |-> None, bookmarks |-> <<>>,
                pending_g |-> FALSE, pending_d |-> FALSE,
                pending_y |-> FALSE, pending_p |-> FALSE,
                mouse_areas |-> MouseAreasDefault,
                search_results |-> <<>>, search_cursor |-> 0]] :
        r \in Tab_new(current_dir, config.show_hidden, config.sort_by, f) }

\* App::new_tab: every outcome [ok, app]
new_tab(a, f) ==
    { [ok |-> r.ok,
       app |-> IF r.ok
               THEN [a EXCEPT !.active_tab = a.active_tab + 1,
                              !.tabs = InsertAt(a.tabs, a.active_tab + 1, r.tab)]
               ELSE a] :
        r \in Tab_new(tab(a).current_dir, tab(a).show_hidden, tab(a).sort_by, f) }

\* a variant of ClampActive that leaves the index where it is
ClampActive_dangling(active_tab, len) == active_tab

\* the clamp of the active index at the end of App::close_tab
ClampActive(active_tab, len) == IF active_tab >= len THEN len - 1 ELSE active_tab

\* App::close_tab: [quit, app]
close_tab(a) ==
    IF Len(a.tabs) <= 1 THEN [quit |-> TRUE, app |-> a]
    ELSE LET tabs == RemoveAt(a.tabs, a.active_tab)
         IN  [quit |-> FALSE,
              app |-> [a EXCEPT !.tabs = tabs,
                                !.active_tab = ClampActive(a.active_tab, Len(tabs))]]

\* App::next_tab
\* a variant of App::next_tab that stays on the last tab
next_tab_unwrapped(a) ==
    IF a.tabs # <<>>
    THEN [a EXCEPT !.active_tab = Min(a.active_tab + 1, Len(a.tabs) - 1)]
    ELSE a

next_tab(a) ==
    IF a.tabs # <<>>
    THEN [a EXCEPT !.active_tab = (a.active_tab + 1) % Len(a.tabs)]
    ELSE a

\* App::prev_tab
prev_tab(a) ==
    IF a.tabs # <<>>
    THEN [a EXCEPT !.active_tab = IF a.active_tab = 0 THEN Len(a.tabs) - 1
                                  ELSE a.active_tab - 1]
    ELSE a

\* self.tab_mut().refresh()? as the last statement of a handler, t being the
\* active tab as the handler has changed it
RefreshTab(a, t, f, done) ==
    { IF r.ok THEN Continue(tab_mut(a, r.tab), f, done)
      ELSE Failed(tab_mut(a, r.tab), f, done) : r \in refresh(t, f) }

\* the entry under the cursor of the view the tab shows
CurrentEntry(t) == IF t.tree_mode THEN selected_tree_entry(t) ELSE selected_entry(t)

\* a variant of ToggleSelected that only inserts
ToggleSelected_insert(t, path) == [t EXCEPT !.selected = t.selected \cup {path}]

\* insert or remove a path in the selection
ToggleSelected(t, path) ==
    [t EXCEPT !.selected = IF path \in t.selected THEN t.selected \ {path}
                           ELSE t.selected \cup {path}]

\* the deletes of App::delete_selected, in the order given: [fs, count, ops]
RECURSIVE delete_paths(_, _, _)
delete_paths(f, paths, i) ==
    IF i > Len(paths) THEN [fs |-> f, count |-> 0, ops |-> <<>>]
    ELSE LET r == delete_to_trash(f, paths[i])
             rest == delete_paths(r.fs, paths, i + 1)
         IN  [fs |-> rest.fs,
              count |-> rest.count + (IF r.ok THEN 1 ELSE 0),
              ops |-> <<OpDone("delete", r.ok, paths[i], paths[i])>> \o rest.ops]

\* App::delete_selected
delete_selected(a, f) ==
    LET t == tab(a)
        sel == selected_entry(t)
    IN  IF t.selected = {}
        THEN IF sel # None
             THEN LET r == delete_to_trash(f, sel[1].path)
                  IN  RefreshTab([a EXCEPT !.status_message =
                                     IF r.ok THEN Msg("Deleted to trash", 0, <<>>)
                                     ELSE Msg("Error", 0, <<>>)],
                                 t, r.fs,
                                 <<OpDone("delete", r.ok, sel[1].path, sel[1].path)>>)
             ELSE RefreshTab(a, t, f, <<>>)
        ELSE UNION { LET r == delete_paths(f, paths, 1)
                     IN  RefreshTab([a EXCEPT !.status_message =
                                        Msg("Deleted items to trash", r.count, <<>>)],
                                    [t EXCEPT !.selected = {}], r.fs, r.ops) :
                     paths \in Orders(t.selected) }

\* App::yank_selected
yank_selected(a) ==
    LET t == tab(a)
        sel == selected_entry(t)
        choices == IF t.selected = {}
                   THEN {IF sel # None THEN <<sel[1].path>> ELSE <<>>}
                   ELSE Orders(t.selected)
    IN  { [a EXCEPT !.pending_op = Some([kind |-> "Copy", sources |-> sources]),
                    !.status_message = Msg("Yanked item(s)", Len(sources), <<>>)] :
            sources \in choices }

\* the loop of App::paste over the sources: [fs, count, ops]
RECURSIVE paste_sources(_, _, _, _, _)
paste_sources(f, op, i, current_dir, count) ==
    IF i > Len(op.sources)
    THEN [fs |-> f, count |-> count, ops |-> <<>>]
    ELSE LET src == op.sources[i]
             r == IF op.kind = "Copy" THEN copy_file(f, src, current_dir)
                  ELSE move_file(f, src, current_dir)
             rest == paste_sources(r.fs, op, i + 1, current_dir,
                                   count + (IF r.ok THEN 1 ELSE 0))
         IN  [fs |-> rest.fs, count |-> rest.count,
              ops |-> <<OpDone(IF op.kind = "Copy" THEN "copy" ELSE "move",
                               r.ok, src, r.path)>> \o rest.ops]

\* App::paste
paste(a, f) ==
    IF a.pending_op # None
    THEN LET op == a.pending_op[1]
             t == tab(a)
             r == paste_sources(f, op, 1, t.current_dir, 0)
         IN  RefreshTab([a EXCEPT !.pending_op = None,
                                  !.status_message = Msg("Pasted item(s)", r.count, <<>>)],
                        [t EXCEPT !.selected = {}], r.fs, r.ops)
    ELSE {Continue([a EXCEPT !.status_message = Msg("Nothing to paste", 0, <<>>)], f, <<>>)}

\* the clipboard provider: with a text to set it succeeds or fails
Clipboard == {TRUE, FALSE}

\* file_ops::copy_content_to_clipboard: the results it can give
copy_content_to_clipboard(f, path) ==
    IF IsDir(f, path) \/ ~Exists(f, path) THEN {FALSE} ELSE Clipboard

\* handle_key, Ctrl+y in normal mode
handle_ctrl_y(a, f) ==
    LET entry == CurrentEntry(tab(a))
    IN  IF entry # None
        THEN { Continue([a EXCEPT !.status_message =
                            IF ok THEN Msg("Content copied", 0, entry[1].name)
                            ELSE Msg("Error", 0, <<>>)], f, <<>>) :
                 ok \in copy_content_to_clipboard(f, entry[1].path) }
        ELSE {Continue(a, f, <<>>)}

\* handle_key, Ctrl+t in normal mode
handle_ctrl_t(a, f) ==
    { IF r.ok
      THEN Continue([r.app EXCEPT !.status_message =
                        Msg("Tab opened", r.app.active_tab + 1, <<>>)], f, <<>>)
      ELSE Failed(r.app, f, <<>>) : r \in new_tab(a, f) }

\* handle_key, Ctrl+w in normal mode
handle_ctrl_w(a, f) ==
    LET r == close_tab(a)
    IN  IF r.quit THEN {Quit(r.app, f)}
        ELSE {Continue([r.app EXCEPT !.status_message =
                           Msg("Tab closed", Len(r.app.tabs), <<>>)], f, <<>>)}

\* c as usize - '1' as usize
DigitIndex(c) ==
    CASE c = "1" -> 0 [] c = "2" -> 1 [] c = "3" -> 2 [] c = "4" -> 3 [] c = "5" -> 4
      [] c = "6" -> 5 [] c = "7" -> 6 [] c = "8" -> 7 [] c = "9" -> 8

\* handle_key, Alt+1..9 in normal mode
handle_alt_digit(a, f, c) ==
    LET idx == DigitIndex(c)
    IN  {Continue(IF idx < Len(a.tabs) THEN [a EXCEPT !.active_tab = idx] ELSE a, f, <<>>)}

\* a variant: whatever the second key is, the cursor goes to the top
handle_pending_g_any(a, f, key) ==
    LET b == [a EXCEPT !.pending_g = FALSE]
        t == tab(b)
    IN  {Continue(IF t.tree_mode
                  THEN tab_mut(b, [t EXCEPT !.tree_cursor = 0])
                  ELSE tab_mut(b, [t EXCEPT !.cursor = 0]), f, <<>>)}

\* handle_normal_key with pending_g set
handle_pending_g(a, f, key) ==
    LET b == [a EXCEPT !.pending_g = FALSE]
        t == tab(b)
    IN  {Continue(IF IsChar(key, "g")
                  THEN IF t.tree_mode
                       THEN tab_mut(b, [t EXCEPT !.tree_cursor = 0])
                       ELSE tab_mut(b, [t EXCEPT !.cursor = 0])
                  ELSE b, f, <<>>)}

\* handle_normal_key with pending_d set
handle_pending_d(a, f, key) ==
    LET b == [a EXCEPT !.pending_d = FALSE]
    IN  IF IsChar(key, "d") THEN delete_selected(b, f) ELSE {Continue(b, f, <<>>)}

\* handle_normal_key with pending_y set
handle_pending_y(a, f, key) ==
    LET b == [a EXCEPT !.pending_y = FALSE]
    IN  IF IsChar(key, "y") THEN {Continue(c, f, <<>>) : c \in yank_selected(b)}
        ELSE {Continue(b, f, <<>>)}

\* handle_normal_key with pending_p set
handle_pending_p(a, f, key) ==
    LET b == [a EXCEPT !.pending_p = FALSE]
    IN  IF IsChar(key, "p") THEN paste(b, f) ELSE {Continue(b, f, <<>>)}

\* file_ops::copy_path_to_clipboard on the entry, if any
copy_path(a, f, entry) ==
    IF entry # None
    THEN { Continue([a EXCEPT !.status_message =
                        IF ok THEN Msg("Path copied", 0, <<>>)
                        ELSE Msg("Clipboard error", 0, <<>>)], f, <<>>) :
             ok \in Clipboard }
    ELSE {Continue(a, f, <<>>)}

\* the t key
handle_t(a, f) ==
    { Continue([tab_mut(a, t) EXCEPT !.status_message =
                   IF t.tree_mode THEN Msg("View: Tree", 0, <<>>)
                   ELSE Msg("View: List", 0, <<>>)], f, <<>>) :
        t \in toggle_tree_mode(tab(a), f) }

\* App::handle_tree_common_key
handle_tree_common_key(a, f, key) ==
    CASE IsChar(key, "t") -> handle_t(a, f)
      [] IsChar(key, "Y") -> copy_path(a, f, selected_tree_entry(tab(a)))
      [] IsChar(key, ".") ->
            { Continue(tab_mut(a, t), f, <<>>) :
                t \in rebuild_tree([tab(a) EXCEPT !.show_hidden = ~tab(a).show_hidden], f) }
      [] OTHER -> {Continue(a, f, <<>>)}

\* the nearest node above the cursor that is less deep than the node under it
TreeParent(t) ==
    LET above == {i \in 0..(t.tree_cursor - 1) :
                     t.tree_nodes[i + 1].depth < t.tree_nodes[t.tree_cursor + 1].depth}
    IN  IF above = {} \/ t.tree_cursor = 0 THEN t.tree_cursor
        ELSE CHOOSE i \in above : \A j \in above : j <= i

\* handle_normal_key in tree mode
handle_tree_key(a, f, key) ==
    LET t == tab(a)
        last == saturating_sub(Len(t.tree_nodes), 1)
        entry == selected_tree_entry(t)
        Down(u) == IF u.tree_cursor < last THEN [u EXCEPT !.tree_cursor = u.tree_cursor + 1]
                   ELSE u
    IN  CASE IsChar(key, "q") -> {Quit(a, f)}
          [] IsKey(key, {"j"}, {"Down"}) -> {Continue(tab_mut(a, Down(t)), f, <<>>)}
          [] IsKey(key, {"k"}, {"Up"}) ->
                {Continue(IF t.tree_cursor > 0
                          THEN tab_mut(a, [t EXCEPT !.tree_cursor = t.tree_cursor - 1])
                          ELSE a, f, <<>>)}
          [] IsKey(key, {"l"}, {"Right", "Enter"}) ->
                IF entry # None /\ entry[1].is_dir
                THEN {Continue(tab_mut(a, u), f, <<>>) : u \in tree_toggle_expand(t, f)}
                ELSE {Continue(a, f, <<>>)}
          [] IsKey(key, {"h"}, {"Left"}) ->
                IF t.tree_cursor < Len(t.tree_nodes)
                THEN LET node == t.tree_nodes[t.tree_cursor + 1]
                     IN  IF node.entry.is_dir /\ node.expanded
                         THEN {Continue(tab_mut(a, u), f, <<>>) : u \in tree_toggle_expand(t, f)}
                         ELSE IF node.depth > 0
                         THEN {Continue(tab_mut(a, [t EXCEPT !.tree_cursor = TreeParent(t)]),
                                        f, <<>>)}
                         ELSE {Continue(a, f, <<>>)}
                ELSE {Continue(a, f, <<>>)}
          [] IsChar(key, "g") -> {Continue([a EXCEPT !.pending_g = TRUE], f, <<>>)}
          [] IsChar(key, "G") ->
                {Continue(tab_mut(a, [t EXCEPT !.tree_cursor = last]), f, <<>>)}
          [] IsChar(key, " ") ->
                IF entry # None
                THEN {Continue(tab_mut(a, Down(ToggleSelected(t, entry[1].path))), f, <<>>)}
                ELSE {Continue(a, f, <<>>)}
          [] OTHER -> handle_tree_common_key(a, f, key)

\* the next sort key
NextSort(sort_by) ==
    CASE sort_by = "Name" -> "Size"
      [] sort_by = "Size" -> "Date"
      [] sort_by = "Date" -> "Extension"
      [] sort_by = "Extension" -> "Name"

SortMsg(sort_by) ==
    CASE sort_by = "Name" -> "Sort: Name"
      [] sort_by = "Size" -> "Sort: Size"
      [] sort_by = "Date" -> "Sort: Date"
      [] sort_by = "Extension" -> "Sort: Extension"

\* format!("{:o}", mode & 0o777) of a path's permission bits: files are
\* created with 644 and directories with 755, and the modelled filesystem
\* keeps no other bits
ModeString(f, path) == IF IsDir(f, path) THEN <<"7", "5", "5">> ELSE <<"6", "4", "4">>

\* a variant of handle_h that leaves the cursor at the top of the parent
handle_h_top(a, f) ==
    LET t == tab(a)
    IN  IF t.current_dir # Root
        THEN RefreshTab(a, [t EXCEPT !.current_dir = Parent(t.current_dir), !.cursor = 0],
                        f, <<>>)
        ELSE {Continue(a, f, <<>>)}

\* the h key of the list view: to the parent directory, the cursor on the
\* directory just left
handle_h(a, f) ==
    LET t == tab(a)
    IN  IF t.current_dir # Root
        THEN LET old_name == FileName(t.current_dir)
                 Named(e) == e.name = old_name
             IN  { IF r.ok
                   THEN LET pos == Position(visible_entries(r.tab), Named)
                        IN  Continue(tab_mut(a, IF pos # None
                                                THEN [r.tab EXCEPT !.cursor = pos[1]]
                                                ELSE r.tab), f, <<>>)
                   ELSE Failed(tab_mut(a, r.tab), f, <<>>) :
                     r \in refresh([t EXCEPT !.current_dir = Parent(t.current_dir),
                                             !.cursor = 0], f) }
        ELSE {Continue(a, f, <<>>)}

\* a variant of handle_l that does not read the directory entered
handle_l_unread(a, f) ==
    LET t == tab(a)
        entry == selected_entry(t)
    IN  IF entry # None /\ entry[1].is_dir
        THEN {Continue(tab_mut(a, [t EXCEPT !.current_dir = entry[1].path, !.cursor = 0]),
                       f, <<>>)}
        ELSE {Continue(a, f, <<>>)}

\* the l key of the list view: into the directory under the cursor.  (A file
\* is handed to the desktop's opener, whose result is dropped.)
handle_l(a, f) ==
    LET t == tab(a)
        entry == selected_entry(t)
    IN  IF entry # None /\ entry[1].is_dir
        THEN RefreshTab(a, [t EXCEPT !.current_dir = entry[1].path, !.cursor = 0], f, <<>>)
        ELSE {Continue(a, f, <<>>)}

\* handle_normal_key in the list view, no key pending
handle_list_key(a, f, key) ==
    LET t == tab(a)
        last == saturating_sub(Len(t.filtered_entries), 1)
        entry == selected_entry(t)
        Down(u) == IF u.cursor < last THEN [u EXCEPT !.cursor = u.cursor + 1] ELSE u
    IN  CASE IsChar(key, "q") -> {Quit(a, f)}
          [] IsKey(key, {"j"}, {"Down"}) -> {Continue(tab_mut(a, Down(t)), f, <<>>)}
          [] IsKey(key, {"k"}, {"Up"}) ->
                {Continue(IF t.cursor > 0 THEN tab_mut(a, [t EXCEPT !.cursor = t.cursor - 1])
                          ELSE a, f, <<>>)}
          [] IsKey(key, {"l"}, {"Right", "Enter"}) -> handle_l(a, f)
          [] IsKey(key, {"h"}, {"Left"}) -> handle_h(a, f)
          [] IsChar(key, "g") -> {Continue([a EXCEPT !.pending_g = TRUE], f, <<>>)}
          [] IsChar(key, "G") -> {Continue(tab_mut(a, [t EXCEPT !.cursor = last]), f, <<>>)}
          [] IsChar(key, "/") ->
                {Continue([a EXCEPT !.input_mode = "Filter", !.input_buffer = <<>>], f, <<>>)}
          [] IsChar(key, "d") -> {Continue([a EXCEPT !.pending_d = TRUE], f, <<>>)}
          [] IsChar(key, "y") -> {Continue([a EXCEPT !.pending_y = TRUE], f, <<>>)}
          [] IsChar(key, "p") -> {Continue([a EXCEPT !.pending_p = TRUE], f, <<>>)}
          [] IsChar(key, " ") ->
                IF entry # None
                THEN {Continue(tab_mut(a, Down(ToggleSelected(t, entry[1].path))), f, <<>>)}
                ELSE {Continue(a, f, <<>>)}
          [] IsChar(key, "s") ->
                RefreshTab([a EXCEPT !.status_message = Msg(SortMsg(NextSort(t.sort_by)), 0, <<>>)],
                           [t EXCEPT !.sort_by = NextSort(t.sort_by)], f, <<>>)
          [] IsChar(key, ".") ->
                RefreshTab(a, [t EXCEPT !.show_hidden = ~t.show_hidden], f, <<>>)
          [] IsChar(key, "r") ->
                {Continue(IF entry # None
                          THEN [a EXCEPT !.input_mode = "Rename",
                                         !.input_buffer = entry[1].name]
                          ELSE a, f, <<>>)}
          [] IsChar(key, "n") ->
                {Continue([a EXCEPT !.input_mode = "CreateFile", !.input_buffer = <<>>,
                                    !.status_message = Msg("New file: ", 0, <<>>)], f, <<>>)}
          [] IsChar(key, "N") ->
                {Continue([a EXCEPT !.input_mode = "CreateDir", !.input_buffer = <<>>,
                                    !.status_message = Msg("New directory: ", 0, <<>>)], f, <<>>)}
          [] IsChar(key, "m") ->
                {Continue([a EXCEPT !.input_mode = "Bookmark",
                                    !.status_message = Msg("Bookmark key: ", 0, <<>>)], f, <<>>)}
          [] IsChar(key, "'") ->
                {Continue([a EXCEPT !.input_mode = "JumpBookmark",
                                    !.status_message = Msg("Jump to bookmark: ", 0, <<>>)], f, <<>>)}
          [] IsChar(key, "c") ->
                {Continue(IF entry # None /\ Exists(f, entry[1].path)
                          THEN [a EXCEPT !.input_buffer = ModeString(f, entry[1].path),
                                         !.input_mode = "Chmod",
                                         !.status_message =
                                            Msg("chmod (octal): ", 0, ModeString(f, entry[1].path))]
                          ELSE a, f, <<>>)}
          [] IsChar(key, "F") ->
                {Continue([a EXCEPT !.input_mode = "Search", !.input_buffer = <<>>,
                                    !.status_message = Msg("Search: ", 0, <<>>)], f, <<>>)}
          [] IsChar(key, "t") -> handle_t(a, f)
          [] IsChar(key, "Y") -> copy_path(a, f, CurrentEntry(t))
          [] OTHER -> {Continue(a, f, <<>>)}

\* App::handle_normal_key
\* a variant of App::handle_normal_key that does not look at the pending flags
handle_normal_key_unchecked(a0, f, key) ==
    LET a == [a0 EXCEPT !.status_message = None]
    IN  IF tab(a).tree_mode THEN handle_tree_key(a, f, key)
        ELSE handle_list_key(a, f, key)

handle_normal_key(a0, f, key) ==
    LET a == [a0 EXCEPT !.status_message = None]
    IN  IF a.pending_g THEN handle_pending_g(a, f, key)
        ELSE IF a.pending_d THEN handle_pending_d(a, f, key)
        ELSE IF a.pending_y THEN handle_pending_y(a, f, key)
        ELSE IF a.pending_p THEN handle_pending_p(a, f, key)
        ELSE IF tab(a).tree_mode THEN handle_tree_key(a, f, key)
        ELSE handle_list_key(a, f, key)

\* String::pop
Pop(s) == IF s = <<>> THEN s ELSE SubSeq(s, 1, Len(s) - 1)

\* a variant of SetFilter that leaves the index list as it is
SetFilter_unapplied(a, text) ==
    tab_mut([a EXCEPT !.input_buffer = text], [tab(a) EXCEPT !.filter_text = text])

\* the filter text becomes the input buffer and the filter is applied
SetFilter(a, text) ==
    tab_mut([a EXCEPT !.input_buffer = text],
            apply_filter([tab(a) EXCEPT !.filter_text = text]))

\* App::handle_filter_key
handle_filter_key(a, f, key) ==
    LET t == tab(a)
        entry == selected_entry(t)
    IN  CASE key.code = "Esc" ->
                {Continue(tab_mut([a EXCEPT !.input_mode = "Normal", !.input_buffer = <<>>],
                                  apply_filter([t EXCEPT !.filter_text = <<>>])), f, <<>>)}
          [] key.code = "Enter" ->
                IF entry # None /\ entry[1].is_dir
                THEN RefreshTab([a EXCEPT !.input_mode = "Normal", !.input_buffer = <<>>],
                                [t EXCEPT !.current_dir = entry[1].path, !.cursor = 0,
                                          !.filter_text = <<>>], f, <<>>)
                ELSE {Continue([a EXCEPT !.input_mode = "Normal"], f, <<>>)}
          [] key.code = "Backspace" -> {Continue(SetFilter(a, Pop(a.input_buffer)), f, <<>>)}
          [] key.code = "Char" ->
                {Continue(SetFilter(a, Append(a.input_buffer, key.ch)), f, <<>>)}
          [] OTHER -> {Continue(a, f, <<>>)}

\* App::handle_input_key, Enter: the operation of the mode, then the refresh
handle_input_enter(a, f) ==
    LET name == a.input_buffer
        mode == a.input_mode
        b == [a EXCEPT !.input_mode = "Normal", !.input_buffer = <<>>]
        t == tab(a)
        entry == selected_entry(t)
        Status(ok, text) == IF ok THEN Msg(text, 0, <<>>) ELSE Msg("Error", 0, <<>>)
    IN  CASE mode = "Rename" ->
                IF entry # None
                THEN LET r == rename_file(f, entry[1].path, name)
                     IN  RefreshTab([b EXCEPT !.status_message = Status(r.ok, "Renamed")],
                                    t, r.fs, <<OpDone("rename", r.ok, entry[1].path, r.path)>>)
                ELSE RefreshTab(b, t, f, <<>>)
          [] mode = "CreateFile" ->
                LET r == create_file(f, t.current_dir, name)
                IN  RefreshTab([b EXCEPT !.status_message = Status(r.ok, "File created")],
                               t, r.fs, <<OpDone("create_file", r.ok, r.path, r.path)>>)
          [] mode = "CreateDir" ->
                LET r == create_dir(f, t.current_dir, name)
                IN  RefreshTab([b EXCEPT !.status_message = Status(r.ok, "Directory created")],
                               t, r.fs, <<OpDone("create_dir", r.ok, r.path, r.path)>>)
          [] OTHER -> RefreshTab(b, t, f, <<>>)

\* App::handle_input_key
handle_input_key(a, f, key) ==
    CASE key.code = "Esc" ->
            {Continue([a EXCEPT !.input_mode = "Normal", !.input_buffer = <<>>,
                                !.status_message = None], f, <<>>)}
      [] key.code = "Enter" -> handle_input_enter(a, f)
      [] key.code = "Backspace" ->
            {Continue([a EXCEPT !.input_buffer = Pop(a.input_buffer)], f, <<>>)}
      [] key.code = "Char" ->
            {Continue([a EXCEPT !.input_buffer = Append(a.input_buffer, key.ch)], f, <<>>)}
      [] OTHER -> {Continue(a, f, <<>>)}

\* HashMap::insert
Insert(map, k, v) == [x \in DOMAIN map \cup {k} |-> IF x = k THEN v ELSE map[x]]

\* App::handle_bookmark_key
handle_bookmark_key(a, f, key) ==
    LET b == [a EXCEPT !.input_mode = "Normal"]
    IN  {Continue(IF key.code = "Char"
                  THEN [b EXCEPT !.bookmarks = Insert(a.bookmarks, key.ch, tab(a).current_dir),
                                 !.status_message = Msg("Bookmark set", 0, <<key.ch>>)]
                  ELSE b, f, <<>>)}

\* App::handle_jump_bookmark_key
handle_jump_bookmark_key(a, f, key) ==
    LET b == [a EXCEPT !.input_mode = "Normal"]
    IN  IF key.code = "Char"
        THEN IF key.ch \in DOMAIN a.bookmarks
             THEN IF IsDir(f, a.bookmarks[key.ch])
                  THEN RefreshTab(b, [tab(b) EXCEPT !.current_dir = a.bookmarks[key.ch],
                                                    !.cursor = 0], f, <<>>)
                  ELSE {Continue([b EXCEPT !.status_message =
                                     Msg("Bookmark no longer exists", 0, <<key.ch>>)], f, <<>>)}
             ELSE {Continue([b EXCEPT !.status_message =
                                Msg("No bookmark", 0, <<key.ch>>)], f, <<>>)}
        ELSE {Continue(b, f, <<>>)}

\* App::handle_chmod_key
handle_chmod_key(a, f, key) ==
    LET entry == selected_entry(tab(a))
    IN  CASE key.code = "Esc" ->
                {Continue([a EXCEPT !.input_mode = "Normal", !.input_buffer = <<>>,
                                    !.status_message = None], f, <<>>)}
          [] key.code = "Enter" ->
                LET b == [a EXCEPT !.input_mode = "Normal", !.input_buffer = <<>>]
                IN  IF entry # None
                    THEN LET ok == chmod_file(f, entry[1].path, a.input_buffer)
                         IN  {Continue([b EXCEPT !.status_message =
                                           IF ok THEN Msg("chmod applied", 0, a.input_buffer)
                                           ELSE Msg("chmod error", 0, <<>>)], f,
                                       <<OpDone("chmod", ok, entry[1].path, entry[1].path)>>)}
                    ELSE {Continue(b, f, <<>>)}
          [] key.code = "Backspace" ->
                {Continue([a EXCEPT !.input_buffer = Pop(a.input_buffer),
                                    !.status_message =
                                       Msg("chmod (octal): ", 0, Pop(a.input_buffer))], f, <<>>)}
          [] key.code = "Char" /\ key.ch \in {"0", "1", "2", "3", "4", "5", "6", "7"} ->
                {Continue(IF Len(a.input_buffer) < 4
                          THEN [a EXCEPT !.input_buffer = Append(a.input_buffer, key.ch),
                                         !.status_message =
                                            Msg("chmod (octal): ", 0, Append(a.input_buffer, key.ch))]
                          ELSE a, f, <<>>)}
          [] OTHER -> {Continue(a, f, <<>>)}

\* a variant of handle_search_commit that leaves search_cursor where the
\* search before left it
handle_search_commit_stale(a, f, pattern) ==
    LET results == search_recursive(f, tab(a).current_dir, pattern, 200)
    IN  IF results = <<>>
        THEN [a EXCEPT !.input_buffer = <<>>, !.search_results = results,
                       !.input_mode = "Normal",
                       !.status_message = Msg("No results for", 0, pattern)]
        ELSE [a EXCEPT !.input_buffer = <<>>, !.search_results = results,
                       !.input_mode = "SearchResults",
                       !.status_message = Msg("results for", Len(results), pattern)]

\* App::handle_search_key, Enter with a pattern: the search is made
handle_search_commit(a, f, pattern) ==
    LET results == search_recursive(f, tab(a).current_dir, pattern, 200)
    IN  IF results = <<>>
        THEN [a EXCEPT !.input_buffer = <<>>, !.search_results = results,
                       !.search_cursor = 0, !.input_mode = "Normal",
                       !.status_message = Msg("No results for", 0, pattern)]
        ELSE [a EXCEPT !.input_buffer = <<>>, !.search_results = results,
                       !.search_cursor = 0, !.input_mode = "SearchResults",
                       !.status_message = Msg("results for", Len(results), pattern)]

\* App::handle_search_key
handle_search_key(a, f, key) ==
    CASE key.code = "Esc" ->
            {Continue([a EXCEPT !.input_mode = "Normal", !.input_buffer = <<>>,
                                !.status_message = None], f, <<>>)}
      [] key.code = "Enter" ->
            IF a.input_buffer = <<>>
            THEN {Continue([a EXCEPT !.input_buffer = <<>>, !.input_mode = "Normal",
                                     !.status_message = None], f, <<>>)}
            ELSE {Continue(handle_search_commit(a, f, a.input_buffer), f, <<>>)}
      [] key.code = "Backspace" ->
            {Continue([a EXCEPT !.input_buffer = Pop(a.input_buffer),
                                !.status_message = Msg("Search: ", 0, Pop(a.input_buffer))],
                      f, <<>>)}
      [] key.code = "Char" ->
            {Continue([a EXCEPT !.input_buffer = Append(a.input_buffer, key.ch),
                                !.status_message =
                                   Msg("Search: ", 0, Append(a.input_buffer, key.ch))], f, <<>>)}
      [] OTHER -> {Continue(a, f, <<>>)}

\* App::handle_search_results_key, Enter: to the directory of the result, the
\* cursor on its file
handle_search_open(a, f) ==
    IF a.search_cursor < Len(a.search_results)
    THEN LET result == a.search_results[a.search_cursor + 1]
             t == tab(a)
         IN  { IF r.ok
               THEN LET Named(idx) == r.tab.entries[idx + 1].name = FileName(result.path)
                        pos == Position(r.tab.filtered_entries, Named)
                    IN  Continue([tab_mut(a, IF pos # None
                                             THEN [r.tab EXCEPT !.cursor = pos[1]]
                                             ELSE r.tab)
                                    EXCEPT !.input_mode = "Normal", !.search_results = <<>>,
                                           !.status_message = Msg("Opened", 0, <<>>)], f, <<>>)
               ELSE Failed(tab_mut(a, r.tab), f, <<>>) :
                 r \in refresh([t EXCEPT !.current_dir = Parent(result.path),
                                         !.cursor = 0], f) }
    ELSE {Continue(a, f, <<>>)}

\* a variant of search_next that moves on from the last result too
search_next_unbounded(a) == [a EXCEPT !.search_cursor = a.search_cursor + 1]

\* App::handle_search_results_key, j or Down: to the next result
search_next(a) ==
    IF a.search_cursor < saturating_sub(Len(a.search_results), 1)
    THEN [a EXCEPT !.search_cursor = a.search_cursor + 1]
    ELSE a

\* a variant of handle_search_close in which the key quits, as q does in
\* Normal mode
handle_search_close_quit(a, f) == {Quit(a, f)}

\* App::handle_search_results_key, Esc or q: the results are closed
handle_search_close(a, f) ==
    {Continue([a EXCEPT !.input_mode = "Normal", !.search_results = <<>>,
                        !.status_message = None], f, <<>>)}

\* App::handle_search_results_key
handle_search_results_key(a, f, key) ==
    CASE IsKey(key, {"q"}, {"Esc"}) -> handle_search_close(a, f)
      [] IsKey(key, {"j"}, {"Down"}) -> {Continue(search_next(a), f, <<>>)}
      [] IsKey(key, {"k"}, {"Up"}) ->
            {Continue([a EXCEPT !.search_cursor = saturating_sub(a.search_cursor, 1)], f, <<>>)}
      [] key.code = "Enter" -> handle_search_open(a, f)
      [] IsChar(key, "G") ->
            {Continue([a EXCEPT !.search_cursor = saturating_sub(Len(a.search_results), 1)],
                      f, <<>>)}
      [] IsChar(key, "g") -> {Continue([a EXCEPT !.search_cursor = 0], f, <<>>)}
      [] OTHER -> {Continue(a, f, <<>>)}

\* App::handle_key
handle_key(a, f, key) ==
    IF key.ctrl /\ IsChar(key, "c") THEN {Quit(a, f)}
    ELSE IF a.input_mode = "Normal" /\ key.ctrl /\ IsChar(key, "y") THEN handle_ctrl_y(a, f)
    ELSE IF a.input_mode = "Normal" /\ key.ctrl /\ IsChar(key, "t") THEN handle_ctrl_t(a, f)
    ELSE IF a.input_mode = "Normal" /\ key.ctrl /\ IsChar(key, "w") THEN handle_ctrl_w(a, f)
    ELSE IF a.input_mode = "Normal" /\ key.ctrl /\ key.code = "Right"
    THEN {Continue(next_tab(a), f, <<>>)}
    ELSE IF a.input_mode = "Normal" /\ key.ctrl /\ key.code = "Left"
    THEN {Continue(prev_tab(a), f, <<>>)}
    ELSE IF a.input_mode = "Normal" /\ key.alt /\ key.code = "Char"
            /\ key.ch \in {"1", "2", "3", "4", "5", "6", "7", "8", "9"}
    THEN handle_alt_digit(a, f, key.ch)
    ELSE CASE a.input_mode = "Normal" -> handle_normal_key(a, f, key)
           [] a.input_mode = "Filter" -> handle_filter_key(a, f, key)
           [] a.input_mode \in {"Rename", "CreateFile", "CreateDir"} -> handle_input_key(a, f, key)
           [] a.input_mode = "Bookmark" -> handle_bookmark_key(a, f, key)
           [] a.input_mode = "JumpBookmark" -> handle_jump_bookmark_key(a, f, key)
           [] a.input_mode = "Chmod" -> handle_chmod_key(a, f, key)
           [] a.input_mode = "Search" -> handle_search_key(a, f, key)
           [] a.input_mode = "SearchResults" -> handle_search_results_key(a, f, key)

\* a variant of file_row that takes the top row of the pane for the first entry
file_row_unbordered(row, py) == row - py

\* the entry a click at a row of the pane is on, under the top border
file_row(row, py) == saturating_sub(row - py, 1)

\* a variant of ClickedTab that takes any click in the top row for a click on
\* the first label
ClickedTab_first(a, column, row) ==
    IF row = 0 /\ a.mouse_areas.tab_positions # <<>>
    THEN Some(a.mouse_areas.tab_positions[1][3])
    ELSE None

\* the tab whose label a left click at (column, row) hits, or None
ClickedTab(a, column, row) ==
    LET Hit(pos) == row = 0 /\ column >= pos[1] /\ column < pos[1] + pos[2]
                    /\ pos[3] < Len(a.tabs)
        at == Position(a.mouse_areas.tab_positions, Hit)
    IN  IF at = None THEN None ELSE Some(a.mouse_areas.tab_positions[at[1] + 1][3])

\* App::handle_mouse
handle_mouse(a, f, mouse) ==
    LET t == tab(a)
        entry == selected_entry(t)
        hit == ClickedTab(a, mouse.column, mouse.row)
        pane == a.mouse_areas.current_pane
    IN  CASE mouse.kind = "DownLeft" ->
                IF hit # None THEN {Continue([a EXCEPT !.active_tab = hit[1]], f, <<>>)}
                ELSE IF pane # None
                        /\ mouse.column >= pane[1][1] /\ mouse.column < pane[1][1] + pane[1][3]
                        /\ mouse.row >= pane[1][2] /\ mouse.row < pane[1][2] + pane[1][4]
                        /\ file_row(mouse.row, pane[1][2]) < Len(t.filtered_entries)
                THEN {Continue(tab_mut(a, [t EXCEPT !.cursor =
                                   file_row(mouse.row, pane[1][2])]), f, <<>>)}
                ELSE {Continue(a, f, <<>>)}
          [] mouse.kind = "ScrollDown" ->
                {Continue(IF t.cursor < saturating_sub(Len(t.filtered_entries), 1)
                          THEN tab_mut(a, [t EXCEPT !.cursor = t.cursor + 1])
                          ELSE a, f, <<>>)}
          [] mouse.kind = "ScrollUp" ->
                {Continue(IF t.cursor > 0 THEN tab_mut(a, [t EXCEPT !.cursor = t.cursor - 1])
                          ELSE a, f, <<>>)}
          [] mouse.kind = "DownRight" ->
                {Continue(IF entry # None THEN tab_mut(a, ToggleSelected(t, entry[1].path))
                          ELSE a, f, <<>>)}
          [] OTHER -> {Continue(a, f, <<>>)}

----------------------------------------------------------------------------
(* src/ui.rs: the areas a frame records for the mouse *)

\* the size of the terminal
TermWidth == 20
TermHeight == 10

\* Tab::tab_title
tab_title(t) == IF t.current_dir = Root THEN <<"/">> ELSE FileName(t.current_dir)

\* draw_tab_bar: (x, width, index) of every tab label " {i+1} {title} "
RECURSIVE tab_positions(_, _, _)
tab_positions(tabs, i, x) ==
    IF i > Len(tabs) THEN <<>>
    ELSE LET width == Len(tab_title(tabs[i])) + 4
         IN  <<<<x, width, i - 1>>>> \o tab_positions(tabs, i + 1, x + width + 1)

\* draw: the mouse areas the frame leaves.  (The layout gives the middle pane
\* 40% of the width from 20% on, and the rows between the bars.)
draw(a) ==
    LET has_tabs == Len(a.tabs) > 1
        tab_bar_height == IF has_tabs THEN 1 ELSE 0
        x1 == (TermWidth * 20) \div 100
        x2 == (TermWidth * 60) \div 100
    IN  [a EXCEPT !.mouse_areas =
            [tab_bar |-> IF has_tabs THEN Some(<<0, 0, TermWidth, 1>>) ELSE None,
             tab_positions |-> IF has_tabs THEN tab_positions(a.tabs, 1, 0) ELSE <<>>,
             current_pane |-> Some(<<x1, tab_bar_height + 1, x2 - x1,
                                     saturating_sub(TermHeight, tab_bar_height + 3)>>)]]

----------------------------------------------------------------------------
(* The session: events handled one at a time, frames drawn in between *)

\* SpecCursor: a text is typed no longer than this
MaxInput == 2
\* SpecOps: a name is typed no longer than this
MaxName == 1
\* SpecTabs: tabs are opened while the session holds fewer than this
MaxTabs == 3
\* SpecOps: files and directories are made while the filesystem holds fewer
\* nodes than this
MaxNodes == 4

\* the modes in which a character key is typed into a text
TextModes == {"Filter", "Rename", "CreateFile", "CreateDir", "Search"}

\* the typing of a session: into a text go only the characters of Typed, and
\* only while the text is shorter than max
Typing(key, Typed, max) ==
    (app.input_mode \in TextModes /\ key.code = "Char")
        => (key.ch \in Typed /\ Len(app.input_buffer) < max)

\* the bookmarks of a session: only the characters of Marks name one
Marking(key, Marks) ==
    (app.input_mode \in {"Bookmark", "JumpBookmark"} /\ key.code = "Char")
        => key.ch \in Marks

\* App::handle_key called with a key event
KeyEvent(key) ==
    /\ ret = "continue"
    /\ \E out \in handle_key(app, fs, key) :
          /\ app' = out.app
          /\ fs' = out.fs
          /\ ret' = out.ret
          /\ ops' = out.ops
    /\ UNCHANGED <<uvars, event>>

\* App::handle_mouse called with a mouse event
MouseEvent(mouse) ==
    /\ ret = "continue"
    /\ \E out \in handle_mouse(app, fs, mouse) :
          /\ app' = out.app
          /\ fs' = out.fs
          /\ ret' = out.ret
          /\ ops' = out.ops
    /\ UNCHANGED <<uvars, event>>

\* ui::draw called on the App
Draw ==
    /\ ret = "continue"
    /\ app' = draw(app)
    /\ ops' = <<>>
    /\ UNCHANGED <<fs, ret, uvars, event>>

\* App::handle_key called with a key event, in a watched session
KeyPress(key) ==
    /\ ret = "continue"
    /\ \E out \in handle_key(app, fs, key) :
          /\ app' = out.app
          /\ fs' = out.fs
          /\ ret' = out.ret
          /\ ops' = out.ops
    /\ event' = [kind |-> "key", key |-> key, app |-> app, fs |-> fs]
    /\ UNCHANGED uvars

\* App::handle_mouse called with a mouse event, in a watched session
MousePress(mouse) ==
    /\ ret = "continue"
    /\ \E out \in handle_mouse(app, fs, mouse) :
          /\ app' = out.app
          /\ fs' = out.fs
          /\ ret' = out.ret
          /\ ops' = out.ops
    /\ event' = [kind |-> "mouse", key |-> mouse, app |-> app, fs |-> fs]
    /\ UNCHANGED uvars


\* the sessions App::with_dir starts in a directory of a filesystem
Started(f, dir, configs) ==
    {r.app : r \in {x \in UNION {with_dir(config, dir, f) : config \in configs} : x.ok}}

\* no UndoStack exists in a session: App has no field for one
SessionInit(f, dir, configs) ==
    /\ fs = f
    /\ app \in Started(f, dir, configs)
    /\ ret = "continue"
    /\ ops = <<>>
    /\ event = NoEvent
    /\ undo = <<>>
    /\ redo = <<>>
    /\ call = NewCall
    /\ trip = NoTrip

Pd == << <<"d">> >>
Pdx == << <<"d">>, <<"x">> >>
Pab == << <<"a", "b">> >>
Phidden == << <<".", "h">> >>

----------------------------------------------------------------------------
(* SpecCursor: one tab, moved through, filtered and refreshed              *)

\* /d/x, /a, /ab, /.h
CursorFs ==
    (Root :> Dir) @@ (Pd :> Dir) @@ (Pdx :> File(1)) @@ (PA :> File(1))
    @@ (Pab :> File(2)) @@ (Phidden :> File(1))

CursorKeys ==
    { Ch("j"), Ch("k"), Ch("l"), Ch("h"), Ch("g"), Ch("G"), Ch("/"), Ch("."),
      Ch("d"), Ch("a"), Ch("b"), Ch(" "),
      Key("Esc"), Key("Enter"), Key("Backspace") }

CursorMice ==
    { Mouse("DownLeft", 6, 1), Mouse("DownLeft", 6, 3), Mouse("DownLeft", 6, 4),
      Mouse("DownRight", 0, 0), Mouse("ScrollDown", 0, 0), Mouse("ScrollUp", 0, 0) }

CursorInit ==
    SessionInit(CursorFs, Root, {[show_hidden |-> FALSE, sort_by |-> "Name"]})

CursorKey == \E key \in CursorKeys : Typing(key, {"a", "b"}, MaxInput) /\ KeyEvent(key)
CursorMouse == \E mouse \in CursorMice : MouseEvent(mouse)
CursorDraw == Draw

CursorNext == CursorKey \/ CursorMouse \/ CursorDraw

SpecCursor == CursorInit /\ [][CursorNext]_vars

----------------------------------------------------------------------------
(* SpecTabs: tabs opened, closed and switched                              *)

\* /d
TabsFs == (Root :> Dir) @@ (Pd :> Dir)

\* Alt+1 .. Alt+(MaxTabs + 1)
AltDigits == {Alt(Ch(Digits[i + 1])) : i \in 1..(MaxTabs + 1)}

TabsKeys ==
    { Ctrl(Ch("w")), Ctrl(Key("Right")), Ctrl(Key("Left")),
      Ch("l"), Ch("h"), Ch("d") } \cup AltDigits

\* left clicks in the top row, on the labels and past them
TabsMice == {Mouse("DownLeft", column, 0) : column \in {0, 5, 6, 12, 18}}

TabsInit ==
    SessionInit(TabsFs, Root, {[show_hidden |-> FALSE, sort_by |-> "Name"]})

TabsOpen == Len(app.tabs) < MaxTabs /\ KeyEvent(Ctrl(Ch("t")))
TabsKey == \E key \in TabsKeys : KeyEvent(key)
TabsMouse == \E mouse \in TabsMice : MouseEvent(mouse)
TabsDraw == Draw

TabsNext == TabsOpen \/ TabsKey \/ TabsMouse \/ TabsDraw

SpecTabs == TabsInit /\ [][TabsNext]_vars

----------------------------------------------------------------------------
(* SpecOps: files renamed, created, yanked and pasted                      *)

\* /a
OpsFs == (Root :> Dir) @@ (PA :> File(1))

OpsKeys ==
    { Ch("l"), Ch("h"), Ch("r"), Ch("n"), Ch("N"), Ch("y"), Ch("p"),
      Ch("b"), Key("Backspace") }

OpsInit ==
    SessionInit(OpsFs, Root, {[show_hidden |-> FALSE, sort_by |-> "Name"]})

OpsKey == \E key \in OpsKeys : Typing(key, {"b"}, MaxName) /\ KeyEvent(key)
OpsEnter ==
    /\ app.input_mode \in {"CreateFile", "CreateDir"} => Cardinality(DOMAIN fs) < MaxNodes
    /\ KeyEvent(Key("Enter"))
OpsPaste ==
    /\ app.pending_p /\ Cardinality(DOMAIN fs) < MaxNodes
    /\ KeyEvent(Ch("p"))

OpsNext == OpsKey \/ OpsEnter \/ OpsPaste

SpecOps == OpsInit /\ [][OpsNext]_vars

----------------------------------------------------------------------------
(* Properties of the undo/redo log *)

\* C3: undo/redo round trip: when push(A) recorded an action whose forward
\* effect was present, and undo() and then redo() succeeded, the filesystem is
\* again as it was at the push.
C3_RoundTrip == trip.stage = 3 => fs = trip.fs

\* C4: a call of undo() or redo() that fails in the inverse operation leaves
\* both stacks as they were.
C4_FailedCallKeepsStacks ==
    [][ (call'.op \in {"undo", "redo"} /\ ~call'.ok /\ call'.action # NoAction)
        => (undo' = undo /\ redo' = redo) ]_vars

\* the inverse operation of an action cannot succeed on f: its target is
\* missing, or is not what the action created
InverseImpossible(action, f) ==
    CASE action.type = "Copy" -> ~Exists(f, action.dest)
      [] action.type = "Move" -> ~Exists(f, action.dest)
      [] action.type = "Rename" -> ~Exists(f, action.new_path)
      [] action.type = "CreateFile" -> IsDir(f, action.path)
      [] action.type = "CreateDir" ->
            Exists(f, action.path) /\ (~IsDir(f, action.path) \/ Below(f, action.path) # {})
      [] OTHER -> FALSE

\* C5: when the inverse operation of undo() fails, the call returns the error
\* and the redo stack is unchanged; when that of redo() fails, the call returns
\* the error and the undo stack is unchanged.
C5_FailedCallPushesNothing ==
    [][ /\ (call'.op = "undo" /\ undo # <<>> /\ InverseImpossible(Top(undo), fs))
            => (~call'.ok /\ call'.msg # NothingTo("undo"))
        /\ (call'.op = "redo" /\ redo # <<>> /\ InverseImpossible(Top(redo), fs))
            => (~call'.ok /\ call'.msg # NothingTo("redo"))
        /\ (call'.op = "undo" /\ ~call'.ok) => redo' = redo
        /\ (call'.op = "redo" /\ ~call'.ok) => undo' = undo ]_vars

\* a failed undo() of a recorded action, called with actions on the redo stack
C5_Witness ==
    /\ call.op = "undo" /\ ~call.ok /\ call.action # NoAction
    /\ call.pre_redo > 0 /\ Len(redo) = call.pre_redo

\* C6: push(action) makes the action the top of the undo stack, above the
\* actions that were on it, and empties the redo stack.
C6_PushAppendsAndClearsRedo ==
    [][ call'.op = "push"
        => /\ undo' # <<>> /\ Top(undo') = call'.action
           /\ Len(undo) < max_size => undo' = Append(undo, call'.action)
           /\ redo' = <<>> ]_vars

\* a push onto a stack with actions on both stacks
C6_Witness ==
    /\ call.op = "push" /\ call.pre_redo > 0 /\ call.pre_undo > 0
    /\ redo = <<>> /\ Len(undo) = call.pre_undo + 1

\* C7: the undo stack never holds more than 100 actions, and a push onto a
\* stack of 100 drops the oldest action and keeps the other 99, in order, below
\* the new one.
C7_CapAndEviction ==
    [][ /\ Len(undo') <= 100
        /\ (call'.op = "push" /\ Len(undo) = 100)
            => /\ Len(undo') = 100
               /\ SubSeq(undo', 1, 99) = SubSeq(undo, 2, 100)
               /\ undo'[100] = call'.action ]_vars

\* a push onto a full stack
C7_Witness == call.op = "push" /\ call.pre_undo = 100 /\ Len(undo) = 100

\* C8: undo() on an empty undo stack fails with "Nothing to undo", redo() on an
\* empty redo stack fails with "Nothing to redo", and neither changes the stacks
\* or the filesystem.
C8_NothingToUndoRedo ==
    [][ /\ (call'.op = "undo" /\ undo = <<>>)
            => /\ ~call'.ok /\ call'.msg = "Nothing to undo"
               /\ UNCHANGED <<undo, redo, fs>>
        /\ (call'.op = "redo" /\ redo = <<>>)
            => /\ ~call'.ok /\ call'.msg = "Nothing to redo"
               /\ UNCHANGED <<undo, redo, fs>> ]_vars

\* undo() called on an empty undo stack while the redo stack holds an action
C8_Witness ==
    /\ call.op = "undo" /\ call.pre_undo = 0 /\ call.pre_redo > 0 /\ ~call.ok
    /\ Len(redo) = call.pre_redo

\* the paths at or below p
Tree(f, p) == {q \in DOMAIN f : IsPrefix(p, q)}

\* g is f with the subtree at p deleted
Deleted(f, g, p) == g = Restrict(f, DOMAIN f \ Tree(f, p))

\* g is f with the node at from moved to to
MovedBack(f, g, from, to) ==
    /\ ~Exists(g, from)
    /\ Exists(g, to) /\ g[to] = f[from]
    /\ \A q \in (DOMAIN f \cup DOMAIN g) \ (Tree(f, from) \cup Tree(f, to) \cup Tree(g, to)) :
         q \in DOMAIN f /\ q \in DOMAIN g /\ g[q] = f[q]

\* the structural inverse of an action takes the filesystem f to g
StructuralInverse(action, f, g) ==
    CASE action.type = "Copy" -> Deleted(f, g, action.dest)
      [] action.type = "Rename" -> MovedBack(f, g, action.new_path, action.old_path)
      [] action.type = "Move" -> MovedBack(f, g, action.dest, action.src)
      [] action.type = "CreateFile" -> Deleted(f, g, action.path)
      [] action.type = "CreateDir" -> Deleted(f, g, action.path)
      [] OTHER -> FALSE

\* C9: a successful undo() removes the top action of the undo stack and nothing
\* else, executes its structural inverse and pushes one action on the redo
\* stack; a successful redo() does the same with the two stacks swapped.
C9_SuccessfulUndoRedo ==
    [][ /\ (call'.op = "undo" /\ call'.ok)
            => /\ undo # <<>> /\ undo' = Front(undo) /\ call'.action = Top(undo)
               /\ StructuralInverse(Top(undo), fs, fs')
               /\ Len(redo') = Len(redo) + 1 /\ Front(redo') = redo
        /\ (call'.op = "redo" /\ call'.ok)
            => /\ redo # <<>> /\ redo' = Front(redo) /\ call'.action = Top(redo)
               /\ StructuralInverse(Top(redo), fs, fs')
               /\ Len(undo') = Len(undo) + 1 /\ Front(undo') = undo ]_vars

\* a successful undo() of a recorded rename, the older action staying below
C9_Witness ==
    /\ call.op = "undo" /\ call.ok /\ call.action.type = "Rename"
    /\ call.pre_undo = 2 /\ Len(undo) = 1 /\ Len(redo) = call.pre_redo + 1
    /\ Exists(fs, call.action.old_path) /\ ~Exists(fs, call.action.new_path)

----------------------------------------------------------------------------
(* Properties of the session *)

\* the cursor invariant of one tab
CursorInRange(t) ==
    IF t.filtered_entries # <<>> THEN t.cursor < Len(t.filtered_entries)
    ELSE t.cursor = 0

\* C1: after any sequence of key events, mouse events, filter changes and
\* refreshes, the cursor of every tab is below the length of its filtered
\* index list when that list is non-empty, and 0 when it is empty
C1_CursorInvariant == \A i \in 1..Len(app.tabs) : CursorInRange(app.tabs[i])

\* the last entry of a list of three was under the cursor and has been deleted:
\* the refresh has left the cursor on the last of the two entries left
C1_Witness ==
    /\ ops = <<OpDone("delete", TRUE, Pab, Pab)>>
    /\ tab(app).filter_text = <<>>
    /\ Len(tab(app).filtered_entries) = 2
    /\ tab(app).cursor = 1

\* C2: after any sequence of new-tab, close-tab, next/previous-tab, Alt+digit
\* and tab-bar click events, the session has a tab and the active index is
\* below the number of tabs
C2_TabInvariant == Len(app.tabs) >= 1 /\ app.active_tab < Len(app.tabs)

\* the last of three tabs was the active one and has been closed: the active
\* index is the last of the two left
C2_Witness ==
    /\ Len(app.tabs) = 2
    /\ app.active_tab = 1
    /\ app.status_message = Msg("Tab closed", 2, <<>>)

\* the UndoAction that records a successful operation, if the undo log has one for it
Recorded(done) ==
    CASE done.op = "rename" -> <<record_rename(done.from, done.to)>>
      [] done.op = "create_file" -> <<record_create_file(done.to)>>
      [] done.op = "create_dir" -> <<record_create_dir(done.to)>>
      [] done.op = "copy" -> <<record_copy(done.to)>>
      [] done.op = "move" -> <<record_move(done.from, done.to)>>
      [] OTHER -> <<>>

\* the successful operations among those an event made, as UndoActions
RECURSIVE RecordedAll(_)
RecordedAll(done) ==
    IF done = <<>> THEN <<>>
    ELSE (IF Head(done).ok THEN Recorded(Head(done)) ELSE <<>>) \o RecordedAll(Tail(done))

\* C10: an event that renames, creates or pastes leaves on the undo log the
\* UndoAction of each operation that succeeded, and nothing for one that failed
C10_RecordedOnSuccess ==
    [][ops' # <<>> => undo' = undo \o RecordedAll(ops')]_vars

----------------------------------------------------------------------------
(* SpecPending: the two-key sequences gg, dd, yy, pp, watched               *)

\* /a, /d
PendingFs == (Root :> Dir) @@ (PA :> File(1)) @@ (Pd :> Dir)

PendingKeys ==
    { Ch("g"), Ch("d"), Ch("y"), Ch("p"), Ch("j"), Ch("t"),
      Ctrl(Key("Right")), Alt(Ch("1")), Ch("/"), Ch("m"), Key("Esc") }

PendingInit ==
    SessionInit(PendingFs, Root, {[show_hidden |-> FALSE, sort_by |-> "Name"]})

PendingKey ==
    \E key \in PendingKeys :
        /\ Typing(key, {"d"}, MaxName)
        /\ Marking(key, {"g"})
        /\ KeyPress(key)

PendingNext == PendingKey

SpecPending == PendingInit /\ [][PendingNext]_vars

----------------------------------------------------------------------------
(* SpecModes: the input modes entered, typed in, committed and left, watched *)

\* /a, a file of two lines
ModesFs == (Root :> Dir) @@ (PA :> File(2))

ModesKeys ==
    { Ch("/"), Ch("r"), Ch("n"), Ch("N"), Ch("m"), Ch("'"), Ch("c"), Ch("F"),
      Ch("a"), Ch("b"), Ch("j"), Ch("k"), Ch("g"), Ch("G"), Ch("q"), Key("Esc") }

ModesInit ==
    SessionInit(ModesFs, Root, {[show_hidden |-> FALSE, sort_by |-> "Name"]})

ModesKey ==
    \E key \in ModesKeys :
        /\ Typing(key, {"a", "b"}, MaxName)
        /\ Marking(key, {"a"})
        /\ KeyPress(key)

\* Enter, but not to rename or create: the filesystem stays as it is
ModesEnter ==
    /\ app.input_mode \notin {"Rename", "CreateFile", "CreateDir"}
    /\ KeyPress(Key("Enter"))

ModesNext == ModesKey \/ ModesEnter

SpecModes == ModesInit /\ [][ModesNext]_vars

----------------------------------------------------------------------------
(* SpecSelect: entries selected, deleted, yanked and pasted, watched         *)

\* /d, /a
SelectFs == (Root :> Dir) @@ (Pd :> Dir) @@ (PA :> File(1))

SelectKeys == {Ch(" "), Ch("j"), Ch("l"), Ch("h"), Ch("d"), Ch("y")}

\* right clicks
SelectMice == {Mouse("DownRight", 0, 0)}

SelectInit ==
    SessionInit(SelectFs, Root, {[show_hidden |-> FALSE, sort_by |-> "Name"]})

SelectKey == \E key \in SelectKeys : KeyPress(key)
SelectPaste ==
    /\ app.pending_p => Cardinality(DOMAIN fs) < MaxNodes
    /\ KeyPress(Ch("p"))
SelectMouse == \E mouse \in SelectMice : MousePress(mouse)

SelectNext == SelectKey \/ SelectPaste \/ SelectMouse

SpecSelect == SelectInit /\ [][SelectNext]_vars

----------------------------------------------------------------------------
(* SpecNavigate: entries selected and the tab moved, filtered, sorted and    *)
(* refreshed, watched                                                        *)

\* /d/x, /.h
NavigateFs ==
    (Root :> Dir) @@ (Pd :> Dir) @@ (Pdx :> File(1)) @@ (Phidden :> File(1))

NavigateKeys ==
    { Ch(" "), Ch("j"), Ch("l"), Ch("h"), Ch("s"), Ch("."),
      Ch("/"), Ch("a"), Ch("m"), Ch("'"), Key("Esc"), Key("Enter") }

NavigateInit ==
    SessionInit(NavigateFs, Root, {[show_hidden |-> FALSE, sort_by |-> "Name"]})

NavigateKey ==
    \E key \in NavigateKeys :
        /\ Typing(key, {"a"}, MaxName)
        /\ Marking(key, {"a"})
        /\ KeyPress(key)

NavigateNext == NavigateKey

SpecNavigate == NavigateInit /\ [][NavigateNext]_vars

----------------------------------------------------------------------------
(* SpecTabOps: tabs opened, closed and switched, each moved and selected in, *)
(* watched                                                                   *)

\* /d
TabOpsFs == (Root :> Dir) @@ (Pd :> Dir)

TabOpsKeys ==
    { Ctrl(Ch("w")), Ctrl(Key("Right")), Ctrl(Key("Left")),
      Ch("l"), Ch("h"), Ch("."), Ch(" ") }

TabOpsInit ==
    SessionInit(TabOpsFs, Root, {[show_hidden |-> FALSE, sort_by |-> "Name"]})

TabOpsOpen == Len(app.tabs) < MaxTabs /\ KeyPress(Ctrl(Ch("t")))
TabOpsKey == \E key \in TabOpsKeys : KeyPress(key)

TabOpsNext == TabOpsOpen \/ TabOpsKey

SpecTabOps == TabOpsInit /\ [][TabOpsNext]_vars

----------------------------------------------------------------------------
(* SpecMouse: one tab clicked in, scrolled and selected in, between frames,  *)
(* watched                                                                   *)

\* /d/x, /a, /ab
MouseFs ==
    (Root :> Dir) @@ (Pd :> Dir) @@ (Pdx :> File(1)) @@ (PA :> File(1))
    @@ (Pab :> File(2))

MouseKeys == {Ch("j"), Ch("l"), Ch("h"), Ch(" "), Ch("/"), Ch("b"), Key("Esc")}

\* left clicks down the middle pane and beside it, the wheel, right clicks
MouseMice ==
    {Mouse("DownLeft", 6, row) : row \in 1..5}
    \cup { Mouse("DownLeft", 0, 2), Mouse("ScrollDown", 0, 0), Mouse("ScrollUp", 0, 0),
           Mouse("DownRight", 0, 0) }

MouseInit ==
    SessionInit(MouseFs, Root, {[show_hidden |-> FALSE, sort_by |-> "Name"]})

MouseKey == \E key \in MouseKeys : Typing(key, {"b"}, MaxName) /\ KeyPress(key)
MouseClick == \E mouse \in MouseMice : MousePress(mouse)
MouseDraw == Draw

MouseNext == MouseKey \/ MouseClick \/ MouseDraw

SpecMouse == MouseInit /\ [][MouseNext]_vars

----------------------------------------------------------------------------
(* SpecTabClick: tabs opened, closed, moved and clicked on in the bar,       *)
(* between frames, watched                                                   *)

TabClickKeys == {Ctrl(Ch("w")), Ch("l"), Ch("h"), Ch("j")}

\* the clicks in the top row, and a right click in the pane
TabClickMice == TabsMice \cup {Mouse("DownRight", 6, 2)}

TabClickInit ==
    SessionInit(TabsFs, Root, {[show_hidden |-> FALSE, sort_by |-> "Name"]})

TabClickOpen == Len(app.tabs) < MaxTabs /\ KeyPress(Ctrl(Ch("t")))
TabClickKey == \E key \in TabClickKeys : KeyPress(key)
TabClickMouse == \E mouse \in TabClickMice : MousePress(mouse)
TabClickDraw == Draw

TabClickNext == TabClickOpen \/ TabClickKey \/ TabClickMouse \/ TabClickDraw

SpecTabClick == TabClickInit /\ [][TabClickNext]_vars

----------------------------------------------------------------------------
(* SpecUp: directories entered and left, shown, hidden and filtered out,     *)
(* watched                                                                   *)

\* /a/, /d/x, /.h/
UpFs ==
    (Root :> Dir) @@ (PA :> Dir) @@ (Pd :> Dir) @@ (Pdx :> File(1)) @@ (Phidden :> Dir)

UpKeys ==
    { Ch("j"), Ch("l"), Ch("h"), Ch("."), Ch("/"), Ch("a"),
      Key("Esc"), Key("Enter"), Key("Backspace") }

UpInit ==
    SessionInit(UpFs, Root, {[show_hidden |-> FALSE, sort_by |-> "Name"]})

UpKey == \E key \in UpKeys : Typing(key, {"a"}, MaxName) /\ KeyPress(key)

UpNext == UpKey

SpecUp == UpInit /\ [][UpNext]_vars

----------------------------------------------------------------------------
(* SpecTree: the tree view of a chain of directories deeper than the cap,    *)
(* expanded and collapsed, watched                                           *)

\* the directory n levels down the chain /d/d/d/...
RECURSIVE Chain(_)
Chain(n) == IF n = 0 THEN Root ELSE Append(Chain(n - 1), <<"d">>)

\* the chain is this deep
ChainDepth == 7

\* /a, /d/x and the chain /d/d/.../d
TreeFs ==
    [p \in {Chain(n) : n \in 0..ChainDepth} \cup {PA, Pdx} |->
        IF p \in {PA, Pdx} THEN File(1) ELSE Dir]

TreeKeys == {Ch("t"), Ch("j"), Ch("l"), Ch("h")}

TreeInit ==
    SessionInit(TreeFs, Root, {[show_hidden |-> FALSE, sort_by |-> "Name"]})

\* in the list view the cursor stays on the first entry, the directory d
TreeKey ==
    \E key \in TreeKeys :
        /\ tab(app).tree_mode \/ key \in {Ch("t"), Ch("l"), Ch("h")}
        /\ KeyPress(key)

\* Tab::tree_toggle_expand called on the active tab
TreeToggle ==
    /\ ret = "continue"
    /\ tab(app).tree_mode
    /\ \E u \in tree_toggle_expand(tab(app), fs) : app' = tab_mut(app, u)
    /\ ops' = <<>>
    /\ event' = [kind |-> "call", key |-> "tree_toggle_expand", app |-> app, fs |-> fs]
    /\ UNCHANGED <<fs, ret, uvars>>

TreeNext == TreeKey \/ TreeToggle

SpecTree == TreeInit /\ [][TreeNext]_vars

----------------------------------------------------------------------------
(* SpecFilter: a listing filtered, the filter edited and cleared, and the    *)
(* listing refreshed under a filter, watched                                 *)

\* /d/x, /a, /b, /ca, /.a
FilterFs ==
    (Root :> Dir) @@ (Pd :> Dir) @@ (Pdx :> File(1)) @@ (PA :> File(1))
    @@ (PB :> File(1)) @@ (<< <<"c", "a">> >> :> File(1))
    @@ (<< <<".", "a">> >> :> File(1))

FilterKeys ==
    { Ch("/"), Ch("a"), Ch("b"), Ch("."), Ch("j"), Ch("l"), Ch("h"),
      Key("Esc"), Key("Enter"), Key("Backspace") }

FilterInit ==
    SessionInit(FilterFs, Root, {[show_hidden |-> FALSE, sort_by |-> "Name"]})

FilterKey ==
    \E key \in FilterKeys :
        /\ Typing(key, {"a", "b"}, MaxInput)
        /\ KeyPress(key)

FilterNext == FilterKey

SpecFilter == FilterInit /\ [][FilterNext]_vars

----------------------------------------------------------------------------
(* SpecSort: Tab::sort_entries applied to listings in every order           *)

\* the directories /d and /e of one size and one date; the files /a and /b of
\* one size, /a and /c.a of one date; /c.a alone has an extension
SortFs ==
    (Root :> Dir) @@ (Pd :> Dir) @@ (<< <<"e">> >> :> Dir)
    @@ (PA :> FileAt(1, 2)) @@ (PB :> FileAt(1, 1))
    @@ (<< <<"c", ".", "a">> >> :> FileAt(2, 2))

\* the sort keys
SortKeys == {"Name", "Size", "Date", "Extension"}

\* a tab whose entries are as read_dir returned them (app.rs 100), in any
\* order, before they are sorted; the listing holds any of the nodes
SortInit ==
    /\ fs = SortFs
    /\ \E sort_by \in SortKeys :
       \E S \in SUBSET read_dir(SortFs, Root, TRUE).entries :
       \E es \in Orders(S) :
          app = [entries |-> es, sort_by |-> sort_by]
    /\ ret = "continue"
    /\ ops = <<>>
    /\ event = NoEvent
    /\ undo = <<>>
    /\ redo = <<>>
    /\ call = NewCall
    /\ trip = NoTrip

\* Tab::sort_entries
SortEntries ==
    /\ app' = [app EXCEPT !.entries = vec_sort_by(app.entries, app.sort_by)]
    /\ event' = [kind |-> "call", key |-> "sort_entries", app |-> app, fs |-> fs]
    /\ UNCHANGED <<fs, ret, ops, uvars>>

SortNext == SortEntries

SpecSort == SortInit /\ [][SortNext]_vars

----------------------------------------------------------------------------
(* SpecStale: two tabs on one filesystem; one deletes the directory the     *)
(* other lists, enters or has bookmarked; watched                           *)

StaleKeys ==
    { Ctrl(Key("Right")), Ch("d"), Ch("l"), Ch("h"), Ch("m"), Ch("'"), Ch("a") }

StaleInit ==
    SessionInit(TabsFs, Root, {[show_hidden |-> FALSE, sort_by |-> "Name"]})

StaleOpen == Len(app.tabs) < 2 /\ KeyPress(Ctrl(Ch("t")))
StaleKey == \E key \in StaleKeys : Marking(key, {"a"}) /\ KeyPress(key)

StaleNext == StaleOpen \/ StaleKey

SpecStale == StaleInit /\ [][StaleNext]_vars

----------------------------------------------------------------------------
(* SpecHidden: hidden files shown and not shown, in the list view and in    *)
(* the tree view                                                            *)

\* /d/x, /d/.g, /.h
HiddenFs ==
    (Root :> Dir) @@ (Pd :> Dir) @@ (Pdx :> File(1))
    @@ (<< <<"d">>, <<".", "g">> >> :> File(1)) @@ (Phidden :> File(1))

HiddenKeys == {Ch("."), Ch("t"), Ch("j"), Ch("k"), Ch("l"), Ch("h"), Ch("s")}

HiddenInit ==
    SessionInit(HiddenFs, Root, {[show_hidden |-> FALSE, sort_by |-> "Name"],
                                 [show_hidden |-> TRUE, sort_by |-> "Name"]})

HiddenKey == \E key \in HiddenKeys : KeyEvent(key)

HiddenNext == HiddenKey

SpecHidden == HiddenInit /\ [][HiddenNext]_vars

----------------------------------------------------------------------------
(* Properties of watched sessions                                          *)

\* the last event was a key, handled in Normal mode
NormalKey == event.kind = "key" /\ event.app.input_mode = "Normal"

\* the list cursor and the tree cursor of every tab
Cursors(a) == [i \in 1..Len(a.tabs) |-> <<a.tabs[i].cursor, a.tabs[i].tree_cursor>>]

\* no tab was opened or closed and no tab's cursor moved
CursorsKept == Cursors(app) = Cursors(event.app)

\* C11: in Normal mode with the first g pending, a second g puts the cursor
\* of the active view (the tree cursor in tree mode, the list cursor
\* otherwise) at 0, and any other key moves no cursor
C11_GoToTop ==
    (NormalKey /\ event.app.pending_g) =>
        IF event.key.code = "Char" /\ event.key.ch = "g"
        THEN /\ app.active_tab = event.app.active_tab
             /\ IF tab(event.app).tree_mode
                THEN tab(app).tree_cursor = 0
                ELSE tab(app).cursor = 0
        ELSE CursorsKept

\* g, g pressed with the list cursor off the top
C11_Witness ==
    /\ NormalKey /\ event.app.pending_g
    /\ event.key = Ch("g")
    /\ ~tab(event.app).tree_mode
    /\ tab(event.app).cursor > 0
    /\ tab(app).cursor = 0

\* g, then a key that is not g, pressed with the list cursor off the top
C11_WitnessOther ==
    /\ NormalKey /\ event.app.pending_g
    /\ event.key = Ch("d")
    /\ tab(event.app).cursor > 0
    /\ tab(app).cursor = tab(event.app).cursor

\* the first key of gg, dd, yy or pp that is pending in an App, if any
PendingChars(a) ==
    {c \in {"g", "d", "y", "p"} :
        \/ c = "g" /\ a.pending_g
        \/ c = "d" /\ a.pending_d
        \/ c = "y" /\ a.pending_y
        \/ c = "p" /\ a.pending_p}

\* C12: while the first key of gg, dd, yy or pp is pending, a key other than
\* the matching second key (Ctrl and Alt tab commands included) clears the
\* pending flag and neither moves a cursor, deletes, yanks nor pastes
C12_PendingCancelled ==
    (NormalKey /\ PendingChars(event.app) # {}
       /\ ~(event.key.code = "Char" /\ event.key.ch \in PendingChars(event.app))) =>
        /\ PendingChars(app) = {}
        /\ CursorsKept
        /\ fs = event.fs
        /\ app.pending_op = event.app.pending_op

\* C13: one Escape pressed in a mode other than Normal leaves the session in
\* Normal mode with an empty input buffer
C13_EscapeToNormal ==
    (event.kind = "key" /\ event.key.code = "Esc" /\ event.app.input_mode # "Normal") =>
        (app.input_mode = "Normal" /\ app.input_buffer = <<>>)

\* the selected paths of every tab
Selections(a) == [i \in 1..Len(a.tabs) |-> a.tabs[i].selected]

\* the last event was a key that moves through the entries or directories
\* (cursor, enter, go up), sorts, refreshes, edits or clears the filter, or
\* jumps to a bookmark
Navigation ==
    /\ event.kind = "key"
    /\ \/ event.app.input_mode \in {"Filter", "JumpBookmark"}
       \/ /\ event.app.input_mode = "Normal"
          /\ PendingChars(event.app) = {}
          /\ IsKey(event.key, {"j", "k", "l", "h", "g", "G", "s", ".", "/"},
                   {"Up", "Down", "Left", "Right", "Enter", "Backspace"})

\* C14: navigation leaves the selected paths of every tab as they were
C14_NavigationKeepsSelection == Navigation => Selections(app) = Selections(event.app)

\* a directory was entered with a path selected
C14_Witness ==
    /\ Navigation
    /\ event.key = Ch("l")
    /\ tab(event.app).selected # {}
    /\ tab(app).current_dir # tab(event.app).current_dir
    /\ tab(app).selected = tab(event.app).selected

\* the last event toggled the selection of the entry under the cursor: the
\* space-bar in the list, or a right click
Toggle ==
    \/ /\ NormalKey /\ PendingChars(event.app) = {} /\ ~tab(event.app).tree_mode
       /\ event.key.code = "Char" /\ event.key.ch = " "
    \/ event.kind = "mouse" /\ event.key.kind = "DownRight"

\* the paths an event may take out of the selection: by a toggle, the path of
\* the entry that was under the cursor
Toggled ==
    IF Toggle /\ selected_entry(tab(event.app)) # None
    THEN {selected_entry(tab(event.app))[1].path}
    ELSE {}

\* C15: with the tabs all kept, a path leaves the selection of a tab only by a
\* toggle on that path: every other event, paste and delete included, leaves
\* in the selection of each tab all the paths that were in it
C15_SelectionLeftByToggle ==
    (event.kind \in {"key", "mouse"} /\ Len(app.tabs) = Len(event.app.tabs)) =>
        \A i \in 1..Len(app.tabs) :
            event.app.tabs[i].selected \ app.tabs[i].selected
                \subseteq (IF i = event.app.active_tab + 1 THEN Toggled ELSE {})

\* the last event was the second key of dd or of pp, and its file operations
\* were made and all failed
FailedCommand ==
    /\ NormalKey
    /\ \/ event.app.pending_d /\ event.key.code = "Char" /\ event.key.ch = "d"
       \/ event.app.pending_p /\ event.key.code = "Char" /\ event.key.ch = "p"
    /\ ops # <<>>
    /\ \A i \in 1..Len(ops) : ~ops[i].ok

\* C18: when dd or pp fails for its targets, the selection of the tab, the
\* pending copy/move operation, the current directory and the cursor are as
\* they were before the command
C18_FailureKeepsState ==
    FailedCommand =>
        /\ tab(app).selected = tab(event.app).selected
        /\ app.pending_op = event.app.pending_op
        /\ tab(app).current_dir = tab(event.app).current_dir
        /\ tab(app).cursor = tab(event.app).cursor

\* the last event was Ctrl+w in Normal mode: App::close_tab was called
Closing ==
    /\ NormalKey
    /\ event.key.ctrl /\ event.key.code = "Char" /\ event.key.ch = "w"

\* C16: close_tab with one tab returns the quit signal and leaves the tabs and
\* the active index as they were; with two or more tabs it removes the active
\* tab and no other, keeps the others in order, returns no quit signal and
\* leaves the active index at most tabs.len() - 1: where it was, unless the
\* last tab was closed
C16_CloseTab ==
    Closing =>
        LET old == event.app.tabs
            k == event.app.active_tab
        IN  IF Len(old) = 1
            THEN /\ ret = "quit"
                 /\ app.tabs = old
                 /\ app.active_tab = k
            ELSE /\ ret = "continue"
                 /\ Len(app.tabs) = Len(old) - 1
                 /\ \A i \in 1..Len(app.tabs) :
                        app.tabs[i] = IF i <= k THEN old[i] ELSE old[i + 1]
                 /\ app.active_tab = (IF k >= Len(app.tabs) THEN Len(app.tabs) - 1 ELSE k)

\* the first of three tabs, all in different states, was closed
C16_Witness ==
    /\ Closing
    /\ Len(event.app.tabs) = 3
    /\ event.app.active_tab = 0
    /\ event.app.tabs[1] # event.app.tabs[2]
    /\ event.app.tabs[2] # event.app.tabs[3]
    /\ event.app.tabs[1] # event.app.tabs[3]
    /\ Len(app.tabs) = 2
    /\ ret = "continue"

\* the only tab was closed
C16_WitnessQuit == Closing /\ Len(event.app.tabs) = 1 /\ ret = "quit"

\* the last event was Ctrl+t in Normal mode and App::new_tab returned Ok
Opened ==
    /\ NormalKey
    /\ event.key.ctrl /\ event.key.code = "Char" /\ event.key.ch = "t"
    /\ ret = "continue"

\* C17: new_tab puts one fresh tab right after the tab that was active, with
\* that tab's directory, show_hidden and sort key, makes it the active tab,
\* and leaves the tabs that were there as they were and in their order
C17_NewTab ==
    Opened =>
        LET old == event.app.tabs
            k == event.app.active_tab
            was == old[k + 1]
        IN  /\ Len(app.tabs) = Len(old) + 1
            /\ app.active_tab = k + 1
            /\ tab(app).current_dir = was.current_dir
            /\ tab(app).show_hidden = was.show_hidden
            /\ tab(app).sort_by = was.sort_by
            /\ \E r \in Tab_new(was.current_dir, was.show_hidden, was.sort_by, event.fs) :
                  r.ok /\ tab(app) = r.tab
            /\ \A i \in 1..Len(old) :
                  old[i] = IF i <= k + 1 THEN app.tabs[i] ELSE app.tabs[i + 1]

\* a tab was opened after the first of two tabs, which had a selection, showed
\* the hidden entries and was in /d
C17_Witness ==
    /\ Opened
    /\ Len(event.app.tabs) = 2
    /\ event.app.active_tab = 0
    /\ tab(event.app).selected # {}
    /\ tab(event.app).show_hidden
    /\ event.app.tabs[2] # event.app.tabs[1]
    /\ Len(app.tabs) = 3
    /\ app.active_tab = 1
    /\ tab(app).selected = {}

\* C19: no failure of the filesystem is fatal: no key command returns an error
C19_NoFatalError == ret # "err"

\* the last event was Enter in Search mode with a pattern typed
Committed ==
    /\ event.kind = "key" /\ event.key.code = "Enter"
    /\ event.app.input_mode = "Search"
    /\ event.app.input_buffer # <<>>

\* what a search for the committed pattern under the directory of the tab finds
Found ==
    search_recursive(event.fs, tab(event.app).current_dir, event.app.input_buffer, 200)

\* C20: a search committed with a pattern ends in Normal mode with a status
\* message and no results when it finds nothing, and in SearchResults mode
\* with search_cursor = 0 and the results found when it finds some
C20_SearchCommit ==
    Committed =>
        IF Found = <<>>
        THEN /\ app.input_mode = "Normal"
             /\ app.status_message # None
             /\ app.search_results = <<>>
        ELSE /\ app.input_mode = "SearchResults"
             /\ app.search_cursor = 0
             /\ app.search_results = Found

\* a second search found two results after the cursor of the first had been
\* moved to its second result
C20_Witness ==
    /\ Committed
    /\ event.app.search_cursor > 0
    /\ Len(app.search_results) = 2
    /\ app.input_mode = "SearchResults"
    /\ app.search_cursor = 0

\* a search found nothing
C20_WitnessNone ==
    /\ Committed
    /\ app.search_results = <<>>
    /\ app.input_mode = "Normal"
    /\ app.status_message # None

\* the last event was a key handled in SearchResults mode
ResultsKey == event.kind = "key" /\ event.app.input_mode = "SearchResults"

\* C21: SearchResults mode is left only by Escape, q and Enter on a result,
\* and then for Normal mode with the result list cleared; Escape and q do
\* leave it, q without the quit signal, and so does Enter on a result
C21_ResultsLeft ==
    ResultsKey =>
        /\ app.input_mode # "SearchResults" =>
              /\ IsKey(event.key, {"q"}, {"Esc", "Enter"})
              /\ event.key.code = "Enter" =>
                    event.app.search_cursor < Len(event.app.search_results)
              /\ app.input_mode = "Normal"
              /\ app.search_results = <<>>
        /\ (IsKey(event.key, {"q"}, {"Esc"}) /\ ~event.key.ctrl) =>
              (app.input_mode = "Normal" /\ ret = "continue")
        /\ (event.key.code = "Enter" /\ ret = "continue"
              /\ event.app.search_cursor < Len(event.app.search_results)) =>
              app.input_mode = "Normal"

\* q was pressed on a list of results
C21_Witness ==
    /\ ResultsKey
    /\ event.key = Ch("q")
    /\ event.app.search_results # <<>>
    /\ app.input_mode = "Normal"
    /\ app.search_results = <<>>
    /\ ret = "continue"

\* Enter was pressed on the second result
C21_WitnessOpen ==
    /\ ResultsKey
    /\ event.key = Key("Enter")
    /\ event.app.search_cursor = 1
    /\ app.input_mode = "Normal"
    /\ app.search_results = <<>>

\* C22: in SearchResults mode the result list is not empty and search_cursor
\* indexes one of the results; j, k, g and G keep the results as they are,
\* j and k move the cursor by one, not past the last and the first result,
\* g moves it to the first and G to the last
C22_SearchCursor ==
    /\ app.input_mode = "SearchResults" =>
          (app.search_results # <<>> /\ app.search_cursor < Len(app.search_results))
    /\ (ResultsKey /\ event.key.code = "Char" /\ event.key.ch \in {"j", "k", "g", "G"}) =>
          LET c == event.app.search_cursor
              n == Len(event.app.search_results)
          IN  /\ app.search_results = event.app.search_results
              /\ app.search_cursor =
                    CASE event.key.ch = "j" -> IF c + 1 < n THEN c + 1 ELSE c
                      [] event.key.ch = "k" -> IF c > 0 THEN c - 1 ELSE 0
                      [] event.key.ch = "g" -> 0
                      [] event.key.ch = "G" -> n - 1

\* j was pressed on the last of two results
C22_Witness ==
    /\ ResultsKey
    /\ event.key = Ch("j")
    /\ Len(event.app.search_results) = 2
    /\ event.app.search_cursor = 1
    /\ app.search_cursor = 1
    /\ app.input_mode = "SearchResults"

\* the current directory of every tab
Directories(a) == [i \in 1..Len(a.tabs) |-> a.tabs[i].current_dir]

\* the last event was a left click inside the content pane the last frame
\* recorded, on no tab label
PaneClick ==
    /\ event.kind = "mouse" /\ event.key.kind = "DownLeft"
    /\ ClickedTab(event.app, event.key.column, event.key.row) = None
    /\ event.app.mouse_areas.current_pane # None
    /\ LET pane == event.app.mouse_areas.current_pane[1]
       IN  /\ event.key.column >= pane[1] /\ event.key.column < pane[1] + pane[3]
           /\ event.key.row >= pane[2] /\ event.key.row < pane[2] + pane[4]

\* C23: a left click inside the content pane, at a row under its top border
\* that is the row of a visible entry, puts the cursor on that entry (row -
\* pane top - 1); the wheel moves the cursor by one, not past the last and the
\* first entry; no mouse event changes the current directory of a tab
C23_MouseNavigation ==
    event.kind = "mouse" =>
        LET was == tab(event.app)
            n == Len(was.filtered_entries)
            top == event.app.mouse_areas.current_pane[1][2]
        IN  /\ Directories(app) = Directories(event.app)
            /\ (PaneClick /\ event.key.row > top /\ event.key.row - top - 1 < n) =>
                  tab(app).cursor = event.key.row - top - 1
            /\ event.key.kind = "ScrollDown" =>
                  tab(app).cursor = (IF was.cursor + 1 < n THEN was.cursor + 1 ELSE was.cursor)
            /\ event.key.kind = "ScrollUp" =>
                  tab(app).cursor = (IF was.cursor > 0 THEN was.cursor - 1 ELSE 0)

\* the third of three rows was clicked with the cursor on the first
C23_Witness ==
    /\ PaneClick
    /\ tab(event.app).cursor = 0
    /\ Len(tab(event.app).filtered_entries) = 3
    /\ event.key.row = event.app.mouse_areas.current_pane[1][2] + 3
    /\ tab(app).cursor = 2

\* the tabs recorded for the tab-bar regions that the last event, a left
\* click, was inside, and that exist
TabsHit ==
    LET positions == event.app.mouse_areas.tab_positions
    IN  { positions[i][3] : i \in
            { j \in 1..Len(positions) :
                /\ event.key.row = 0
                /\ event.key.column >= positions[j][1]
                /\ event.key.column < positions[j][1] + positions[j][2]
                /\ positions[j][3] < Len(event.app.tabs) } }

\* C24: a left click inside a recorded tab-bar region whose tab exists makes
\* that tab the active one and leaves every tab as it was
C24_TabClick ==
    (event.kind = "mouse" /\ event.key.kind = "DownLeft" /\ TabsHit # {}) =>
        /\ app.active_tab \in TabsHit
        /\ Cardinality(TabsHit) = 1
        /\ app.tabs = event.app.tabs

\* the label of the third tab was clicked with the first tab active
C24_Witness ==
    /\ event.kind = "mouse" /\ event.key.kind = "DownLeft"
    /\ TabsHit = {2}
    /\ event.app.active_tab = 0
    /\ app.active_tab = 2

\* a label was clicked on a frame drawn when the tabs were others: the tab
\* under the label is not the one the bar would now show there
C24_WitnessStale ==
    /\ event.kind = "mouse" /\ event.key.kind = "DownLeft"
    /\ TabsHit # {}
    /\ event.app.mouse_areas.tab_positions # tab_positions(event.app.tabs, 1, 0)

\* C25: a toggle flips the membership of the path under the cursor in the
\* selection and of no other path; the right click leaves the cursor where it
\* is and the space-bar moves it on by one, not past the last entry; a second
\* toggle of the same path gives the selection back
C25_Toggle ==
    (Toggle /\ selected_entry(tab(event.app)) # None) =>
        LET was == tab(event.app)
            path == selected_entry(was)[1].path
        IN  /\ tab(app).selected =
                  (IF path \in was.selected THEN was.selected \ {path}
                   ELSE was.selected \cup {path})
            /\ tab(app).cursor =
                  (IF event.kind = "key" /\ was.cursor + 1 < Len(was.filtered_entries)
                   THEN was.cursor + 1 ELSE was.cursor)
            /\ ToggleSelected(tab(app), path).selected = was.selected

\* a right click took the path under the cursor out of a selection of two
C25_Witness ==
    /\ Toggle /\ event.kind = "mouse"
    /\ selected_entry(tab(event.app)) # None
    /\ Cardinality(tab(event.app).selected) = 2
    /\ Cardinality(tab(app).selected) = 1
    /\ tab(app).cursor = tab(event.app).cursor

\* the space-bar selected the last entry of the list
C25_WitnessLast ==
    /\ Toggle /\ event.kind = "key"
    /\ tab(event.app).cursor = 2
    /\ Len(tab(event.app).filtered_entries) = 3
    /\ Cardinality(tab(app).selected) = Cardinality(tab(event.app).selected) + 1
    /\ tab(app).cursor = 2

\* the last event was a key of the list view of Normal mode, none pending
ListKey ==
    NormalKey /\ PendingChars(event.app) = {} /\ ~tab(event.app).tree_mode
        /\ ~event.key.ctrl /\ ~event.key.alt

\* C26: l, Right or Enter on a directory entry makes the path of the entry the
\* current directory, with the cursor at 0 and the entries those read from
\* that directory; on an entry that is no directory, the current directory,
\* the entries and the cursor stay as they are
C26_Enter ==
    (ListKey /\ IsKey(event.key, {"l"}, {"Right", "Enter"})
       /\ selected_entry(tab(event.app)) # None) =>
        LET was == tab(event.app)
            entry == selected_entry(was)[1]
        IN  IF entry.is_dir
            THEN /\ tab(app).current_dir = entry.path
                 /\ tab(app).cursor = 0
                 /\ tab(app).entries \in
                        sort_entries(read_dir(event.fs, entry.path, was.show_hidden).entries,
                                     was.sort_by)
            ELSE /\ tab(app).current_dir = was.current_dir
                 /\ tab(app).entries = was.entries
                 /\ tab(app).cursor = was.cursor

\* the directory /d was entered from /, listed with the hidden entries
C26_Witness ==
    /\ ListKey /\ event.key = Ch("l")
    /\ tab(event.app).current_dir = Root
    /\ Len(tab(event.app).entries) = 2
    /\ tab(app).current_dir = Pd
    /\ tab(app).cursor = 0
    /\ Len(tab(app).entries) = 1

\* l was pressed on a file
C26_WitnessFile ==
    /\ ListKey /\ event.key = Ch("l")
    /\ selected_entry(tab(event.app)) # None
    /\ ~selected_entry(tab(event.app))[1].is_dir
    /\ tab(event.app).cursor > 0
    /\ tab(app).cursor = tab(event.app).cursor

\* the places (from 0) among the visible entries of a tab of the entries of a name
Places(t, name) ==
    {i \in 0..(Len(t.filtered_entries) - 1) : visible_entries(t)[i + 1].name = name}

\* C27: h or Left in the list view changes nothing at the root; elsewhere it
\* makes the parent the current directory and puts the cursor on the visible
\* entry that has the name of the directory left, or on 0 when no visible
\* entry has it
C27_GoUp ==
    (ListKey /\ IsKey(event.key, {"h"}, {"Left"})) =>
        LET was == tab(event.app)
            places == Places(tab(app), FileName(was.current_dir))
        IN  IF was.current_dir = Root
            THEN app.tabs = event.app.tabs
            ELSE /\ tab(app).current_dir = Parent(was.current_dir)
                 /\ IF places = {} THEN tab(app).cursor = 0
                    ELSE tab(app).cursor \in places /\ Cardinality(places) = 1

\* /d was left for /, where it is the second entry
C27_Witness ==
    /\ ListKey /\ event.key = Ch("h")
    /\ tab(event.app).current_dir = Pd
    /\ tab(app).current_dir = Root
    /\ tab(app).cursor = 1

\* /.h was left with the hidden entries not shown: the cursor is at the top
C27_WitnessHidden ==
    /\ ListKey /\ event.key = Ch("h")
    /\ tab(event.app).current_dir = Phidden
    /\ ~tab(app).show_hidden
    /\ Len(tab(app).filtered_entries) = 2
    /\ tab(app).cursor = 0

\* /d was left with a filter that does not let it through
C27_WitnessFiltered ==
    /\ ListKey /\ event.key = Ch("h")
    /\ tab(event.app).current_dir = Pd
    /\ tab(app).filter_text # <<>>
    /\ Places(tab(app), <<"d">>) = {}
    /\ tab(app).cursor = 0

\* C28: no node of a tree is deeper than 5, however many directories of a
\* chain deeper than that are expanded
C28_DepthCap ==
    \A i \in 1..Len(app.tabs) :
        \A n \in 1..Len(app.tabs[i].tree_nodes) : app.tabs[i].tree_nodes[n].depth <= 5

\* the directory at depth 5 is expanded and has a directory in it, and the
\* tree ends with it
C28_Witness ==
    LET nodes == tab(app).tree_nodes
    IN  /\ tab(app).tree_mode
        /\ \E n \in 1..Len(nodes) :
              /\ nodes[n].depth = 5
              /\ nodes[n].entry.is_dir /\ nodes[n].expanded /\ nodes[n].has_children

\* the last event was l, Right, Enter or h, Left in the tree view on the node
\* of an expanded directory under the tree cursor: the node was collapsed
Collapsed ==
    /\ NormalKey /\ PendingChars(event.app) = {} /\ tab(event.app).tree_mode
    /\ ~event.key.ctrl /\ ~event.key.alt
    /\ IsKey(event.key, {"l", "h"}, {"Right", "Enter", "Left"})
    /\ LET was == tab(event.app)
       IN  /\ was.tree_cursor < Len(was.tree_nodes)
           /\ was.tree_nodes[was.tree_cursor + 1].entry.is_dir
           /\ was.tree_nodes[was.tree_cursor + 1].entry.path \in was.tree_expanded

\* the first node of the tree is of depth 0, and a node is deeper than the
\* node before it by at most 1, and deeper only under an expanded directory
TreeShape(nodes) ==
    /\ nodes # <<>> => nodes[1].depth = 0
    /\ \A n \in 2..Len(nodes) :
          \/ nodes[n].depth <= nodes[n - 1].depth
          \/ /\ nodes[n].depth = nodes[n - 1].depth + 1
             /\ nodes[n - 1].entry.is_dir /\ nodes[n - 1].expanded

\* C29: every tree has the shape of a tree; collapsing a node takes away the
\* nodes after it that are deeper than it, up to the next node that is not,
\* and leaves the others
C29_TreeShape ==
    /\ \A i \in 1..Len(app.tabs) : TreeShape(app.tabs[i].tree_nodes)
    /\ Collapsed =>
          LET old == tab(event.app).tree_nodes
              new == tab(app).tree_nodes
              at == tab(event.app).tree_cursor + 1
              under == {m \in (at + 1)..Len(old) :
                          \A k \in (at + 1)..m : old[k].depth > old[at].depth}
          IN  /\ Len(new) = Len(old) - Cardinality(under)
              /\ \A n \in 1..Len(new) :
                    new[n] = IF n < at THEN old[n]
                             ELSE IF n = at THEN [old[at] EXCEPT !.expanded = FALSE]
                             ELSE old[n + Cardinality(under)]
              /\ at < Len(new) => new[at + 1].depth <= new[at].depth

\* a directory with an expanded directory in it was collapsed, and nodes
\* follow it
C29_Witness ==
    /\ Collapsed
    /\ Len(tab(event.app).tree_nodes) >= Len(tab(app).tree_nodes) + 2
    /\ tab(event.app).tree_cursor + 1 < Len(tab(app).tree_nodes)

\* C30: tree_toggle_expand on the node of a file changes nothing; on the node
\* of a directory it flips the membership of the path of the node, and of no
\* other, in the expanded set and the tree is built anew; the tree cursor of
\* a tree built is below the number of nodes, or 0 when there is none
C30_ToggleExpand ==
    /\ \A i \in 1..Len(app.tabs) :
          app.tabs[i].tree_mode =>
              \/ app.tabs[i].tree_cursor < Len(app.tabs[i].tree_nodes)
              \/ app.tabs[i].tree_nodes = <<>> /\ app.tabs[i].tree_cursor = 0
    /\ (event.kind = "call" /\ event.key = "tree_toggle_expand") =>
          LET was == tab(event.app)
              node == was.tree_nodes[was.tree_cursor + 1]
          IN  IF was.tree_cursor < Len(was.tree_nodes) /\ node.entry.is_dir
              THEN /\ tab(app).tree_expanded =
                         (IF node.entry.path \in was.tree_expanded
                          THEN was.tree_expanded \ {node.entry.path}
                          ELSE was.tree_expanded \cup {node.entry.path})
                   /\ tab(app).tree_nodes \in
                         build_tree_recursive(event.fs, tab(app), was.current_dir, 0)
              ELSE /\ tab(app).tree_expanded = was.tree_expanded
                   /\ tab(app).tree_nodes = was.tree_nodes
                   /\ tab(app).tree_cursor = was.tree_cursor

\* tree_toggle_expand was called on the node of a file under expanded
\* directories
C30_Witness ==
    /\ event.kind = "call" /\ event.key = "tree_toggle_expand"
    /\ tab(event.app).tree_cursor < Len(tab(event.app).tree_nodes)
    /\ ~tab(event.app).tree_nodes[tab(event.app).tree_cursor + 1].entry.is_dir
    /\ tab(event.app).tree_expanded # {}
    /\ tab(app) = tab(event.app)

\* the tree view was opened on a directory with fewer nodes than the tree
\* cursor was at: the cursor is on the last node
C30_WitnessClamped ==
    /\ NormalKey /\ event.key = Ch("t")
    /\ tab(app).tree_mode
    /\ tab(event.app).tree_cursor >= Len(tab(app).tree_nodes)
    /\ tab(app).tree_nodes # <<>>
    /\ tab(app).tree_cursor = Len(tab(app).tree_nodes) - 1

\* the tree view was opened on an empty directory
C30_WitnessEmpty ==
    /\ NormalKey /\ event.key = Ch("t")
    /\ tab(app).tree_mode
    /\ tab(event.app).tree_cursor > 0
    /\ tab(app).tree_nodes = <<>>
    /\ tab(app).tree_cursor = 0

\* the index list of a tab is strictly increasing and every index is one of
\* an entry
IndicesValid(t) ==
    /\ \A i \in 1..Len(t.filtered_entries) :
          t.filtered_entries[i] \in 0..(Len(t.entries) - 1)
    /\ \A i \in 1..Len(t.filtered_entries), j \in 1..Len(t.filtered_entries) :
          i < j => t.filtered_entries[i] < t.filtered_entries[j]

\* C31: in every state the filtered indices of every tab are a strictly
\* increasing sequence of indices below the number of entries, under every
\* filter text and after every refresh
C31_FilteredIndices == \A i \in 1..Len(app.tabs) : IndicesValid(app.tabs[i])

\* the listing was refreshed under a filter and has fewer entries than
\* before; the entries listed are not next to each other
C31_Witness ==
    /\ NormalKey /\ event.key = Ch(".")
    /\ tab(app).filter_text # <<>>
    /\ Len(tab(app).entries) < Len(tab(event.app).entries)
    /\ tab(app).filtered_entries = <<1, 3>>
    /\ tab(event.app).filtered_entries = <<1, 2, 4>>

\* a key of Filter mode
FilterModeKey == event.kind = "key" /\ event.app.input_mode = "Filter"

\* the filter text of the tab was not empty and the key has emptied it
FilterCleared ==
    /\ FilterModeKey
    /\ event.key.code \in {"Backspace", "Esc"}
    /\ tab(event.app).filter_text # <<>>
    /\ tab(app).filter_text = <<>>

\* C32: when Backspace or Esc in Filter mode empties a filter text that was
\* not empty, the filtered indices are 0 .. entries.len() - 1 in order, and
\* the entries are in sorted order
C32_FilterCleared ==
    FilterCleared =>
        /\ tab(app).filtered_entries = [i \in 1..Len(tab(app).entries) |-> i - 1]
        /\ tab(app).entries \in
              sort_entries({tab(app).entries[i] : i \in 1..Len(tab(app).entries)},
                           tab(app).sort_by)
        /\ tab(app).entries = tab(event.app).entries

\* Backspace has emptied a filter that listed fewer entries than there are
C32_Witness ==
    /\ FilterCleared
    /\ event.key = Key("Backspace")
    /\ Len(tab(event.app).filtered_entries) < Len(tab(event.app).entries)
    /\ Len(tab(app).filtered_entries) = 5

\* Esc has emptied a filter that listed no entry
C32_WitnessEscape ==
    /\ FilterCleared
    /\ event.key = Key("Esc")
    /\ tab(event.app).filtered_entries = <<>>
    /\ Len(tab(app).filtered_entries) = 4

\* Tab::sort_entries has been applied
SortedCall == event.kind = "call" /\ event.key = "sort_entries"

\* the elements of a sequence
Elements(s) == {s[i] : i \in 1..Len(s)}

\* no file comes before a directory
DirectoriesFirst(entries) ==
    \A i \in 1..Len(entries), j \in 1..Len(entries) :
        (i < j /\ entries[j].is_dir) => entries[i].is_dir

\* C33: under every sort key the sorted entries have every directory before
\* every file, and sorting the sorted entries again gives the same order
C33_DirectoriesFirst ==
    SortedCall =>
        /\ DirectoriesFirst(app.entries)
        /\ vec_sort_by(app.entries, app.sort_by) = app.entries
        /\ Elements(app.entries) = Elements(event.app.entries)
        /\ Len(app.entries) = Len(event.app.entries)
        /\ app.entries \in sort_entries(Elements(event.app.entries), app.sort_by)

\* a listing that had a file before a directory, and two files in another
\* order than that of their sizes, has been sorted by size
C33_Witness ==
    /\ SortedCall
    /\ app.sort_by = "Size"
    /\ Len(app.entries) = 5
    /\ ~DirectoriesFirst(event.app.entries)
    /\ event.app.entries[1].size = 1 /\ event.app.entries[2].size = 2
    /\ app.entries # event.app.entries

\* the primary key of an entry under a sort key
PrimaryKey(e, sort_by) ==
    CASE sort_by = "Name" -> to_lowercase(e.name)
      [] sort_by = "Size" -> e.size
      [] sort_by = "Date" -> e.modified
      [] sort_by = "Extension" -> to_lowercase(Extension(e.name))

\* C34: under every sort key two sorted entries of the same kind with equal
\* primary keys are in the order of their names, case ignored, whatever order
\* the directory returned them in
C34_TiesByName ==
    SortedCall =>
        \A i \in 1..Len(app.entries), j \in 1..Len(app.entries) :
            ( /\ i < j
              /\ app.entries[i].is_dir = app.entries[j].is_dir
              /\ PrimaryKey(app.entries[i], app.sort_by)
                    = PrimaryKey(app.entries[j], app.sort_by) )
            => ~StrLess(to_lowercase(app.entries[j].name),
                        to_lowercase(app.entries[i].name))

\* the directory, the entries, the index list and the cursor of the active tab
ListState(a) ==
    [current_dir |-> tab(a).current_dir, entries |-> tab(a).entries,
     filtered_entries |-> tab(a).filtered_entries, cursor |-> tab(a).cursor]

\* the key entered a directory, went up or jumped to a bookmark
Moving ==
    \/ /\ NormalKey
       /\ ~(event.app.pending_g \/ event.app.pending_d
            \/ event.app.pending_y \/ event.app.pending_p)
       /\ ~tab(event.app).tree_mode
       /\ ~event.key.ctrl /\ ~event.key.alt
       /\ IsKey(event.key, {"l", "h"}, {"Right", "Left", "Enter"})
    \/ /\ event.kind = "key" /\ event.app.input_mode = "JumpBookmark"

\* C35: when entering a directory, going up or jumping to a bookmark fails
\* because the directory cannot be read, the current directory, the entries,
\* the filtered indices and the cursor of the tab are as before the key
C35_FailedRefresh ==
    (Moving /\ ret = "err") => ListState(app) = ListState(event.app)

\* the key was Ctrl with an arrow
Switched(code) == event.kind = "key" /\ event.key = Ctrl(Key(code))

\* C36: next_tab and prev_tab move the active index by one, from the last tab
\* to the first and from the first to the last, and change nothing else; in
\* every state of the session next_tab followed by prev_tab, and prev_tab
\* followed by next_tab, give the active index back
C36_NextPrevTab ==
    /\ Switched("Right") =>
          /\ app.active_tab = IF event.app.active_tab = Len(event.app.tabs) - 1 THEN 0
                              ELSE event.app.active_tab + 1
          /\ app.tabs = event.app.tabs
    /\ Switched("Left") =>
          /\ app.active_tab = IF event.app.active_tab = 0 THEN Len(event.app.tabs) - 1
                              ELSE event.app.active_tab - 1
          /\ app.tabs = event.app.tabs
    /\ prev_tab(next_tab(app)) = app
    /\ next_tab(prev_tab(app)) = app

\* Ctrl+Right on the last of three tabs has made the first one active
C36_Witness ==
    /\ Switched("Right")
    /\ Len(app.tabs) = MaxTabs
    /\ event.app.active_tab = MaxTabs - 1
    /\ app.active_tab = 0

\* Ctrl+Left on the first of three tabs has made the last one active
C36_WitnessLeft ==
    /\ Switched("Left")
    /\ Len(app.tabs) = MaxTabs
    /\ event.app.active_tab = 0
    /\ app.active_tab = MaxTabs - 1

\* C37: in every state at most one of the pending flags g, d, y and p is set,
\* and none is set while the input mode is not Normal
C37_PendingFlags ==
    /\ Cardinality(PendingChars(app)) <= 1
    /\ app.input_mode # "Normal" => PendingChars(app) = {}

\* a flag was pending and the key of another flag has come: no flag is set
C37_Witness ==
    /\ NormalKey
    /\ event.app.pending_g
    /\ event.key = Ch("d")
    /\ PendingChars(app) = {}

\* a flag was pending over a tab key and the key of a mode has come: the
\* mode is Normal
C37_WitnessMode ==
    /\ NormalKey
    /\ event.app.pending_y
    /\ event.key = Ch("/")
    /\ app.input_mode = "Normal"
    /\ PendingChars(app) = {}

\* the session is in another mode than Normal, entered after a flag was set
\* and cancelled
C37_WitnessFilter ==
    /\ app.input_mode = "Filter"
    /\ tab(app).filter_text = <<"d">>
    /\ app.pending_op # None

\* C38: after any sequence of push, undo and redo on a stack made by new(),
\* undo_count() + redo_count() is at most 100, although redo() pushes onto the
\* undo stack without applying the cap
C38_BothStacksBounded == Len(undo) + Len(redo) <= max_size

\* redo() has pushed the hundredth action onto the undo stack
C38_Witness ==
    /\ call.op = "redo" /\ call.ok
    /\ call.pre_undo = max_size - 1
    /\ Len(undo) = max_size
    /\ Len(redo) = call.pre_redo - 1

\* C39: a key or mouse event changes no tab but the active one: with as many
\* tabs after the event as before, every tab but the one that was active is
\* as it was; a tab opened leaves every tab there was as it was; a tab
\* closed is the one that was active, and the others are as they were
C39_TabIsolation ==
    event.kind \in {"key", "mouse"} =>
        \/ /\ Len(app.tabs) = Len(event.app.tabs)
           /\ \A i \in 1..Len(app.tabs) :
                 i # event.app.active_tab + 1 => app.tabs[i] = event.app.tabs[i]
        \/ /\ Len(app.tabs) = Len(event.app.tabs) + 1
           /\ RemoveAt(app.tabs, app.active_tab) = event.app.tabs
        \/ /\ Len(app.tabs) = Len(event.app.tabs) - 1
           /\ app.tabs = RemoveAt(event.app.tabs, event.app.active_tab)

\* a key has changed the second of three tabs, whose neighbours differ from it
C39_Witness ==
    /\ event.kind = "key"
    /\ Len(app.tabs) = MaxTabs
    /\ event.app.active_tab = 1
    /\ app.tabs[2] # event.app.tabs[2]
    /\ app.tabs[1] # app.tabs[2]
    /\ app.tabs[3] # app.tabs[2]
    /\ app.tabs[1] # app.tabs[3]

\* a right click has selected the entry of the last of the tabs
C39_WitnessMouse ==
    /\ event.kind = "mouse"
    /\ Len(app.tabs) > 1
    /\ event.app.active_tab = Len(app.tabs) - 1
    /\ tab(app).selected # tab(event.app).selected

\* C40: in every state of every tab, when show_hidden is false no entry of the
\* flat entry list has a name that starts with '.', also after show_hidden
\* was toggled in the tree view and the tab is back in the list view
C40_HiddenConsistency ==
    \A i \in 1..Len(app.tabs) :
        ~app.tabs[i].show_hidden =>
            \A k \in 1..Len(app.tabs[i].entries) : app.tabs[i].entries[k].name[1] # "."

============================================================================
